---- MODULE Spec2Model ----
(***************************************************************************)
(* The card game of src/src/machines/cardGameMachine.ts (an XState         *)
(* machine), the card utilities it calls (utils/cardUtils, kept in         *)
(* src/unnamed/part_008) and the GameBoard component that drives it        *)
(* (src/src/components/RuleHelper.tsx, lines 430-735).                      *)
(*                                                                         *)
(* A card is written as its index 0..51 in the order createDeck builds     *)
(* the deck (suits outer, values inner); the index stands for the card's   *)
(* uuid, and suit, value and points are read off it.                       *)
(***************************************************************************)
EXTENDS Integers, Sequences, FiniteSets, TLC

\* ----------------------------------------------------------------- bounds
\* Most players the environment registers (the machine itself has no cap).
MaxPlayers == 3
\* Shuffles explored: Math.random's stream is one of MaxShuffle + 1 seeds.
MaxShuffle == 2
\* Plays and skips are sent while the discard pile and the notification log
\* together hold fewer entries than this.
MaxDiscard == 2
\* Longest card list a PLAY_CARDS command carries.
MaxPlay == 2
\* TIMER_TICKs GameBoard's interval sends in a round.
MaxTicks == 1
\* setTimeout(0) callbacks pending beyond which no click is explored.
MaxPending == 2
\* Longest card list handed to canPlayCards on its own.
MaxCards == 3
\* Most players of a round that is played to its end.
RoundPlayers == 2
\* Rounds started again with RESTART_GAME.
MaxGames == 1
\* Cards of a hand that selection commands name.
MaxSelect == 3
\* PLAYER_JOIN commands sent to the machine in one lobby.
MaxRoster == 5

\* ------------------------------------------------------ program constants
NumSuits == 4
NumValues == 13
CardsPerPlayer == 7
InitialTimer == 180
NotificationCap == 10
\* Lobby takes no join once this many players are registered.
LobbyCap == 4
\* card: null of an auto-skip notification
NoCard == -1

\* ------------------------------------------------------------------ cards
Suits == <<"hearts", "diamonds", "clubs", "spades">>
Values == <<"A", "2", "3", "4", "5", "6", "7", "8", "9", "10", "J", "Q", "K">>
DeckSize == NumSuits * NumValues
Cards == 0 .. (DeckSize - 1)

suit(c) == Suits[(c \div NumValues) + 1]
value(c) == Values[(c % NumValues) + 1]

\* parseInt on the value strings that reach the default branch
parseInt(v) ==
  CASE v = "2" -> 2 [] v = "3" -> 3 [] v = "4" -> 4 [] v = "5" -> 5
    [] v = "6" -> 6 [] v = "7" -> 7 [] v = "8" -> 8 [] v = "9" -> 9
    [] v = "10" -> 10

getCardPoints(v) ==
  CASE v = "A" -> 1
    [] v = "J" -> 11
    [] v = "Q" -> 12
    [] v = "K" -> 13
    [] OTHER -> parseInt(v)

getCardNumericValue(v) ==
  CASE v = "A" -> 1
    [] v = "J" -> 11
    [] v = "Q" -> 12
    [] v = "K" -> 13
    [] OTHER -> parseInt(v)

\* card.points, set by createDeck
points(c) == getCardPoints(value(c))

\* A canPlayCard that forgets the Ace-on-King case (faulty variant).
canPlayCardNoWrap(card, topDiscardCard) ==
  \/ value(card) = value(topDiscardCard)
  \/ getCardNumericValue(value(card)) = getCardNumericValue(value(topDiscardCard)) + 1

canPlayCard(card, topDiscardCard) ==
  LET cardValue == getCardNumericValue(value(card))
      topValue == getCardNumericValue(value(topDiscardCard))
  IN IF value(card) = value(topDiscardCard) THEN TRUE
     ELSE IF cardValue = 1 /\ topValue = 13 THEN TRUE
     ELSE IF cardValue = topValue + 1 THEN TRUE
     ELSE FALSE

\* hand.filter(...)
RECURSIVE getValidCards(_, _)
getValidCards(hand, topDiscardCard) ==
  IF hand = <<>> THEN <<>>
  ELSE LET rest == getValidCards(Tail(hand), topDiscardCard)
       IN IF canPlayCard(Head(hand), topDiscardCard) THEN <<Head(hand)>> \o rest ELSE rest

\* A hand score that counts Jack, Queen and King as 10 points each.
RECURSIVE calculateHandScoreFacesTen(_)
calculateHandScoreFacesTen(hand) ==
  IF hand = <<>> THEN 0
  ELSE (IF points(Head(hand)) > 10 THEN 10 ELSE points(Head(hand)))
         + calculateHandScoreFacesTen(Tail(hand))

\* hand.reduce((total, card) => total + card.points, 0)
RECURSIVE calculateHandScore(_)
calculateHandScore(hand) ==
  IF hand = <<>> THEN 0
  ELSE points(Head(hand)) + calculateHandScore(Tail(hand))

\* cards.reduce((sum, card) => sum + getCardNumericValue(card.value), 0)
RECURSIVE cardsSum(_)
cardsSum(cards) ==
  IF cards = <<>> THEN 0
  ELSE getCardNumericValue(value(Head(cards))) + cardsSum(Tail(cards))

canPlayCards(cards, topDiscardCard) ==
  IF Len(cards) = 0 THEN FALSE
  ELSE IF Len(cards) = 1 THEN canPlayCard(cards[1], topDiscardCard)
  ELSE LET allIndividuallyValid ==
             \A i \in 1..Len(cards) : canPlayCard(cards[i], topDiscardCard)
           firstCardValue == value(cards[1])
           allSameValue == \A i \in 1..Len(cards) : value(cards[i]) = firstCardValue
       IN IF allIndividuallyValid THEN TRUE
          ELSE IF allSameValue THEN canPlayCard(cards[1], topDiscardCard)
          ELSE cardsSum(cards) = getCardNumericValue(value(topDiscardCard))


\* --------------------------------------------------------------- the deck
\* Math.floor(Math.random() * (i + 1)) of shuffleDeck: any of 0..i in the code;
\* the model follows one pseudo-random stream per seed.
random(seed, i) == (seed * (i + 3) + i * i) % (i + 1)

swap(s, i, j) == [s EXCEPT ![i] = s[j], ![j] = s[i]]

\* for (let i = shuffled.length - 1; i > 0; i--) swap(shuffled[i], shuffled[j])
\* (i, j are the code's 0-based indexes)
RECURSIVE shuffleFrom(_, _, _)
shuffleFrom(shuffled, i, seed) ==
  IF i > 0
  THEN shuffleFrom(swap(shuffled, i + 1, random(seed, i) + 1), i - 1, seed)
  ELSE shuffled

shuffleDeck(d, seed) == shuffleFrom(d, Len(d) - 1, seed)

\* createDeck: the 52 cards, suits outer and values inner, then shuffled
createDeck(seed) == shuffleDeck([i \in 1..DeckSize |-> i - 1], seed)

\* The seeds explored.
Seeds == { 22 + 13 * k : k \in 0..MaxShuffle }

\* dealCards: playerHands[p] gets deck[p], deck[p + n], ... while cards last
dealtCount(d, numPlayers, cardsPerPlayer) ==
  IF numPlayers * cardsPerPlayer <= Len(d) THEN numPlayers * cardsPerPlayer ELSE Len(d)

\* A deal that hands every player the received cards in reverse order.
RECURSIVE handOfReversed(_, _, _, _)
handOfReversed(d, p, numPlayers, dealt) ==
  IF p >= dealt THEN <<>>
  ELSE handOfReversed(d, p + numPlayers, numPlayers, dealt) \o <<d[p + 1]>>

RECURSIVE handOf(_, _, _, _)
handOf(d, p, numPlayers, dealt) ==
  \* the cards at 0-based deck positions p, p + numPlayers, ... below dealt
  IF p >= dealt THEN <<>>
  ELSE <<d[p + 1]>> \o handOf(d, p + numPlayers, numPlayers, dealt)

dealCards(d, numPlayers, cardsPerPlayer) ==
  LET dealt == dealtCount(d, numPlayers, cardsPerPlayer)
  IN [playerHands |-> [p \in 1..numPlayers |-> handOf(d, p - 1, numPlayers, dealt)],
      remainingDeck |-> SubSeq(d, dealt + 1, Len(d))]

\* ------------------------------------------------------------ the machine
VARIABLES
  state,      \* the machine's state value
  context,    \* GameContext
  lastEvent,  \* the event handled last, and whether a transition took it
  timeouts,   \* GameBoard's pending setTimeout(0) callbacks, oldest first
  probe       \* inputs and result of a utility function called on its own

vars == <<state, context, lastEvent, timeouts, probe>>

States == {"lobby", "gameStarting", "playerTurn", "waitingForTurn", "gameEnding", "gameOver"}

\* gameId: uuidv4() is written as a number; a fresh one is the next number
initialContext(gameId) ==
  [players |-> <<>>,
   currentPlayerIndex |-> 0,
   deck |-> <<>>,
   discardPile |-> <<>>,
   gameTimer |-> InitialTimer,
   selectedCards |-> <<>>,
   gameId |-> gameId,
   roundStartTime |-> "null",
   finalScores |-> <<>>,
   winner |-> <<>>,
   autoPlayNotifications |-> <<>>]

\* context.gameEndReason as a reader gets it: no context object the machine
\* builds has the property, so the read gives undefined.
gameEndReason(ctx) ==
  IF "gameEndReason" \in DOMAIN ctx THEN ctx.gameEndReason ELSE "undefined"

\* context.discardPile[context.discardPile.length - 1], <<>> for undefined
topOf(pile) == IF Len(pile) > 0 THEN <<pile[Len(pile)]>> ELSE <<>>

\* context.players[context.currentPlayerIndex]
currentPlayerOf(ctx) == ctx.players[ctx.currentPlayerIndex + 1]

hasAnyValidMovesAlways(ctx) == TRUE

hasAnyValidMoves(ctx) ==
  LET top == topOf(ctx.discardPile)
  IN IF top = <<>> THEN TRUE
     ELSE \E i \in 1..Len(ctx.players) :
            Len(getValidCards(ctx.players[i].hand, top[1])) > 0

\* s.slice(-n)
lastN(s, n) == IF Len(s) > n THEN SubSeq(s, Len(s) - n + 1, Len(s)) ELSE s

\* s.filter(x => !drop.has(x))
RECURSIVE without(_, _)
without(s, drop) ==
  IF s = <<>> THEN <<>>
  ELSE IF Head(s) \in drop THEN without(Tail(s), drop)
  ELSE <<Head(s)>> \o without(Tail(s), drop)

range(s) == { s[i] : i \in 1..Len(s) }

\* players.find(p => p.id === playerId), <<>> for undefined
findPlayer(ps, playerId) ==
  LET hits == { i \in 1..Len(ps) : ps[i].id = playerId }
  IN IF hits = {} THEN <<>>
     ELSE <<ps[CHOOSE i \in hits : \A j \in hits : i <= j]>>

\* ---- entry actions
gameStartingEntry(ctx, seed) ==
  [ctx EXCEPT !.deck = createDeck(seed),
              !.roundStartTime = "set",
              !.gameTimer = InitialTimer]

\* An entry that keeps the selection (faulty variant).
playerTurnEntryKeepsSelection(ctx) == ctx

playerTurnEntry(ctx) == [ctx EXCEPT !.selectedCards = <<>>]

\* An advance that takes the next player without looking at the hands (faulty variant).
nextPlayerLoopNoScan(ctx, nextPlayerIndex, attempts) == nextPlayerIndex

\* the while loop of waitingForTurn's entry (0-based indexes)
RECURSIVE nextPlayerLoop(_, _, _)
nextPlayerLoop(ctx, nextPlayerIndex, attempts) ==
  LET top == topOf(ctx.discardPile)
  IN IF attempts < Len(ctx.players) /\ top # <<>>
     THEN IF Len(getValidCards(ctx.players[nextPlayerIndex + 1].hand, top[1])) > 0
          THEN nextPlayerIndex
          ELSE nextPlayerLoop(ctx, (nextPlayerIndex + 1) % Len(ctx.players), attempts + 1)
     ELSE nextPlayerIndex

\* A scan that starts at the current player instead of the one after (faulty variant).
nextPlayerIndexFromCurrent(ctx) ==
  nextPlayerLoop(ctx, ctx.currentPlayerIndex % Len(ctx.players), 0)

nextPlayerIndexOf(ctx) ==
  nextPlayerLoop(ctx, (ctx.currentPlayerIndex + 1) % Len(ctx.players), 0)

\* An entry that moves currentPlayerIndex and leaves the flags alone (faulty variant).
waitingForTurnEntryIndexOnly(ctx) ==
  [ctx EXCEPT !.currentPlayerIndex =
     nextPlayerLoop(ctx, (ctx.currentPlayerIndex + 1) % Len(ctx.players), 0)]

waitingForTurnEntry(ctx) ==
  LET nextPlayerIndex == nextPlayerIndexOf(ctx)
  IN [ctx EXCEPT
        !.players = [i \in 1..Len(ctx.players) |->
                       [ctx.players[i] EXCEPT !.isCurrentPlayer = (i - 1 = nextPlayerIndex)]],
        !.currentPlayerIndex = nextPlayerIndex]

scoreOf(player) ==
  [playerId |-> player.id,
   playerName |-> player.name,
   finalScore |-> calculateHandScore(player.hand),
   handCards |-> player.hand]

\* A reduce that lets a later equal score replace the lowest (faulty variant).
RECURSIVE lowestTiesLast(_, _, _)
lowestTiesLast(scores, i, lowest) ==
  IF i > Len(scores) THEN lowest
  ELSE lowestTiesLast(scores, i + 1,
                      IF scores[i].finalScore <= lowest.finalScore THEN scores[i] ELSE lowest)

\* finalScores.reduce((lowest, current) =>
\*   current.finalScore < lowest.finalScore ? current : lowest)
RECURSIVE lowestFrom(_, _, _)
lowestFrom(scores, i, lowest) ==
  IF i > Len(scores) THEN lowest
  ELSE lowestFrom(scores, i + 1,
                  IF scores[i].finalScore < lowest.finalScore THEN scores[i] ELSE lowest)

gameEndingEntry(ctx) ==
  LET finalScores == [i \in 1..Len(ctx.players) |-> scoreOf(ctx.players[i])]
  IN [ctx EXCEPT !.finalScores = finalScores,
                 !.winner = <<lowestFrom(finalScores, 2, finalScores[1])>>]


\* ---- transitions: each gives the state and context after the event, and
\* ---- whether a transition of the state's `on` took it (its guard passed)
result(st, ctx, handled) == [state |-> st, context |-> ctx, handled |-> handled]

dropped(st, ctx) == result(st, ctx, FALSE)

\* A PLAYER_JOIN that every state handles (faulty variant).
PLAYER_JOIN_anyState(st, ctx, playerId, playerName) ==
  [state |-> st,
   context |-> [ctx EXCEPT !.players = Append(ctx.players,
                  [id |-> playerId, name |-> playerName, hand |-> <<>>,
                   isCurrentPlayer |-> FALSE])],
   handled |-> TRUE]

\* lobby.on.PLAYER_JOIN
PLAYER_JOIN(st, ctx, playerId, playerName) ==
  IF st = "lobby"
  THEN result("lobby",
              [ctx EXCEPT !.players = Append(ctx.players,
                 [id |-> playerId, name |-> playerName, hand |-> <<>>,
                  isCurrentPlayer |-> FALSE])],
              TRUE)
  ELSE dropped(st, ctx)

\* A START_GAME guard that lets a lone player start (faulty variant).
startGuardOnePlayer(ctx) == Len(ctx.players) >= 1

startGuard(ctx) == Len(ctx.players) >= 2

\* lobby.on.START_GAME, with gameStarting's entry
START_GAME(st, ctx, seed) ==
  IF st = "lobby" /\ startGuard(ctx)
  THEN result("gameStarting", gameStartingEntry(ctx, seed), TRUE)
  ELSE dropped(st, ctx)

\* A deal that leaves the face-up card in the deck as well (faulty variant).
dealtKeepsTop(ctx) ==
  LET d == dealCards(ctx.deck, Len(ctx.players), CardsPerPlayer)
  IN [ctx EXCEPT !.players = [i \in 1..Len(ctx.players) |->
                                [ctx.players[i] EXCEPT !.hand = d.playerHands[i],
                                                       !.isCurrentPlayer = (i - 1 = 0)]],
                 !.deck = d.remainingDeck,
                 !.discardPile = SubSeq(d.remainingDeck, 1, 1),
                 !.currentPlayerIndex = 0,
                 !.selectedCards = <<>>]

\* gameStarting.after[1000], with playerTurn's entry
dealt(ctx) ==
  LET d == dealCards(ctx.deck, Len(ctx.players), CardsPerPlayer)
      updatedPlayers == [i \in 1..Len(ctx.players) |->
                           [ctx.players[i] EXCEPT !.hand = d.playerHands[i],
                                                  !.isCurrentPlayer = (i - 1 = 0)]]
      discardPile == IF Len(d.remainingDeck) > 0 THEN <<d.remainingDeck[1]>> ELSE <<>>
      finalDeck == IF Len(d.remainingDeck) > 0 THEN Tail(d.remainingDeck) ELSE <<>>
  IN playerTurnEntry([ctx EXCEPT !.players = updatedPlayers,
                                 !.deck = finalDeck,
                                 !.discardPile = discardPile,
                                 !.currentPlayerIndex = 0])

\* An END_GAME that is refused while cards are selected (faulty variant).
END_GAME_unlessSelected(st, ctx) ==
  IF st = "playerTurn" /\ ctx.selectedCards = <<>>
  THEN [state |-> "gameEnding", context |-> gameEndingEntry(ctx), handled |-> TRUE]
  ELSE [state |-> st, context |-> ctx, handled |-> FALSE]

\* An END_GAME that waitingForTurn handles too (faulty variant).
END_GAME_whenWaiting(st, ctx) ==
  IF st \in {"playerTurn", "waitingForTurn"}
  THEN [state |-> "gameEnding", context |-> gameEndingEntry(ctx), handled |-> TRUE]
  ELSE [state |-> st, context |-> ctx, handled |-> FALSE]

\* playerTurn.on.END_GAME, with gameEnding's entry
END_GAME(st, ctx) ==
  IF st = "playerTurn"
  THEN result("gameEnding", gameEndingEntry(ctx), TRUE)
  ELSE dropped(st, ctx)

notificationOf(player, card, type) ==
  [playerId |-> player.id, playerName |-> player.name, card |-> card, type |-> type]

\* A log that keeps its first entries and drops the newest when full (faulty variant).
loggedKeepsOldest(ctx, notification) ==
  SubSeq(Append(ctx.autoPlayNotifications, notification), 1,
         IF Len(ctx.autoPlayNotifications) < NotificationCap
         THEN Len(ctx.autoPlayNotifications) + 1 ELSE NotificationCap)

\* [...context.autoPlayNotifications, notification].slice(-10)
logged(ctx, notification) ==
  lastN(Append(ctx.autoPlayNotifications, notification), NotificationCap)

\* A skip that also throws away the player's first card (faulty variant).
skipTurnAssignDropsCard(ctx) ==
  [ctx EXCEPT !.players[ctx.currentPlayerIndex + 1].hand = Tail(@),
              !.autoPlayNotifications =
                 logged(ctx, notificationOf(currentPlayerOf(ctx), NoCard, "auto-skip"))]

\* playerTurn.on.SKIP_TURN.actions
skipTurnAssign(ctx) ==
  [ctx EXCEPT !.autoPlayNotifications =
     logged(ctx, notificationOf(currentPlayerOf(ctx), NoCard, "auto-skip"))]

\* A SKIP_TURN that waitingForTurn handles too (faulty variant).
SKIP_TURN_whenWaiting(st, ctx) ==
  IF st \in {"playerTurn", "waitingForTurn"}
  THEN [state |-> "waitingForTurn",
        context |-> waitingForTurnEntry(skipTurnAssign(ctx)),
        handled |-> TRUE]
  ELSE [state |-> st, context |-> ctx, handled |-> FALSE]

\* playerTurn.on.SKIP_TURN, with waitingForTurn's entry
SKIP_TURN(st, ctx) ==
  IF st = "playerTurn"
  THEN result("waitingForTurn", waitingForTurnEntry(skipTurnAssign(ctx)), TRUE)
  ELSE dropped(st, ctx)

\* playerTurn.on.CARD_SELECTED
cardSelectedGuard(ctx, playerId) == currentPlayerOf(ctx).id = playerId

\* A selection that does not look whether the card is selected already (faulty variant).
selectedAfterAgain(ctx, cardId, playerId) ==
  IF \E i \in 1..Len(ctx.players) :
       ctx.players[i].id = playerId /\ cardId \in range(ctx.players[i].hand)
  THEN Append(ctx.selectedCards, cardId)
  ELSE ctx.selectedCards

selectedAfter(ctx, cardId, playerId) ==
  LET owner == findPlayer(ctx.players, playerId)
      found == owner # <<>> /\ cardId \in range(owner[1].hand)
  IN IF found /\ cardId \notin range(ctx.selectedCards)
     THEN Append(ctx.selectedCards, cardId)
     ELSE ctx.selectedCards

CARD_SELECTED(st, ctx, cardId, playerId) ==
  IF st = "playerTurn" /\ cardSelectedGuard(ctx, playerId)
  THEN result("playerTurn",
              [ctx EXCEPT !.selectedCards = selectedAfter(ctx, cardId, playerId)], TRUE)
  ELSE dropped(st, ctx)

\* playerTurn.on.CARD_DESELECTED (it has no guard)
CARD_DESELECTED(st, ctx, cardId, playerId) ==
  IF st = "playerTurn"
  THEN result("playerTurn",
              [ctx EXCEPT !.selectedCards = without(ctx.selectedCards, {cardId})], TRUE)
  ELSE dropped(st, ctx)

\* A PLAY_CARDS guard that does not validate the cards (faulty variant).
playCardsGuardNoRule(ctx, cards, playerId) ==
  currentPlayerOf(ctx).id = playerId /\ Len(cards) > 0

\* playerTurn.on.PLAY_CARDS.guard (on an empty pile the code would read a
\* field of undefined; the pile is never empty in playerTurn)
playCardsGuard(ctx, cards, playerId) ==
  LET topDiscardCard == topOf(ctx.discardPile)
  IN /\ currentPlayerOf(ctx).id = playerId
     /\ Len(cards) > 0
     /\ topDiscardCard # <<>>
     /\ canPlayCards(cards, topDiscardCard[1])

\* A play that leaves the played cards in the hand as well (faulty variant).
playedByKeepsHand(ctx, cards) ==
  [i \in 1..Len(ctx.players) |-> [ctx.players[i] EXCEPT !.isCurrentPlayer = FALSE]]

\* the players after the current one played `cards`
playedBy(ctx, cards) ==
  LET updatedHand == without(currentPlayerOf(ctx).hand, range(cards))
  IN [i \in 1..Len(ctx.players) |->
        [ctx.players[i] EXCEPT
           !.hand = IF i - 1 = ctx.currentPlayerIndex THEN updatedHand ELSE @,
           !.isCurrentPlayer = FALSE]]

\* A play that puts the cards under the pile instead of on top (faulty variant).
playCardsAssignUnder(ctx, cards) ==
  [ctx EXCEPT !.players = playedBy(ctx, cards),
              !.discardPile = cards \o ctx.discardPile,
              !.selectedCards = <<>>]

\* playerTurn.on.PLAY_CARDS.actions
playCardsAssign(ctx, cards) ==
  [ctx EXCEPT !.players = playedBy(ctx, cards),
              !.discardPile = ctx.discardPile \o cards,
              !.selectedCards = <<>>]

PLAY_CARDS(st, ctx, cards, playerId) ==
  IF st = "playerTurn" /\ playCardsGuard(ctx, cards, playerId)
  THEN result("waitingForTurn", waitingForTurnEntry(playCardsAssign(ctx, cards)), TRUE)
  ELSE dropped(st, ctx)

\* playerTurn.on.AUTO_PLAY.guard
autoPlayGuard(ctx, card, playerId) ==
  LET topDiscardCard == topOf(ctx.discardPile)
  IN /\ currentPlayerOf(ctx).id = playerId
     /\ topDiscardCard # <<>>
     /\ canPlayCards(<<card>>, topDiscardCard[1])

\* An auto-play that puts the card in the place of the pile's top (faulty variant).
autoPlayAssignReplacesTop(ctx, card) ==
  [ctx EXCEPT !.players = playedBy(ctx, <<card>>),
              !.discardPile = [ctx.discardPile EXCEPT ![Len(ctx.discardPile)] = card],
              !.selectedCards = <<>>,
              !.autoPlayNotifications =
                 lastN(Append(ctx.autoPlayNotifications,
                              notificationOf(currentPlayerOf(ctx), card, "auto-play")),
                       NotificationCap)]

\* playerTurn.on.AUTO_PLAY.actions
autoPlayAssign(ctx, card) ==
  [ctx EXCEPT !.players = playedBy(ctx, <<card>>),
              !.discardPile = Append(ctx.discardPile, card),
              !.selectedCards = <<>>,
              !.autoPlayNotifications =
                 logged(ctx, notificationOf(currentPlayerOf(ctx), card, "auto-play"))]

AUTO_PLAY(st, ctx, card, playerId) ==
  IF st = "playerTurn" /\ autoPlayGuard(ctx, card, playerId)
  THEN result("waitingForTurn", waitingForTurnEntry(autoPlayAssign(ctx, card)), TRUE)
  ELSE dropped(st, ctx)

\* A tick handler that never ends the round (faulty variant).
timerExpiredNever(remainingTime) == FALSE

\* A guard that lets the timer sit at zero (faulty variant).
timerExpiredBelowZero(remainingTime) == remainingTime < 0

\* TIMER_TICK[0].guard
timerExpired(remainingTime) == remainingTime <= 0

\* A TIMER_TICK that every state handles by storing the time (faulty variant).
TIMER_TICK_anyState(st, ctx, remainingTime) ==
  IF st \in {"playerTurn", "waitingForTurn"} /\ remainingTime <= 0
  THEN [state |-> "gameEnding",
        context |-> gameEndingEntry([ctx EXCEPT !.gameTimer = remainingTime]),
        handled |-> TRUE]
  ELSE [state |-> st, context |-> [ctx EXCEPT !.gameTimer = remainingTime], handled |-> TRUE]

\* A TIMER_TICK whose running-time branch re-enters waitingForTurn (faulty
\* variant): the entry action advances the turn once more.
TIMER_TICK_reenters(st, ctx, remainingTime) ==
  IF st \in {"playerTurn", "waitingForTurn"}
  THEN IF timerExpired(remainingTime)
       THEN result("gameEnding",
                   gameEndingEntry([ctx EXCEPT !.gameTimer = remainingTime]), TRUE)
       ELSE IF st = "waitingForTurn"
            THEN result(st, waitingForTurnEntry([ctx EXCEPT !.gameTimer = remainingTime]), TRUE)
            ELSE result(st, [ctx EXCEPT !.gameTimer = remainingTime], TRUE)
  ELSE dropped(st, ctx)

\* playerTurn.on.TIMER_TICK and waitingForTurn.on.TIMER_TICK
TIMER_TICK(st, ctx, remainingTime) ==
  IF st \in {"playerTurn", "waitingForTurn"}
  THEN IF timerExpired(remainingTime)
       THEN result("gameEnding",
                   gameEndingEntry([ctx EXCEPT !.gameTimer = remainingTime]), TRUE)
       ELSE result(st, [ctx EXCEPT !.gameTimer = remainingTime], TRUE)
  ELSE dropped(st, ctx)

\* waitingForTurn.after[500]: the state it goes to
afterWaitingTarget(ctx) ==
  IF ~hasAnyValidMoves(ctx) THEN "gameEnding" ELSE "playerTurn"

\* A RESTART_GAME that gameEnding handles too (faulty variant).
RESTART_GAME_whenEnding(st, ctx) ==
  IF st \in {"gameEnding", "gameOver"}
  THEN [state |-> "lobby", context |-> initialContext(ctx.gameId + 1), handled |-> TRUE]
  ELSE [state |-> st, context |-> ctx, handled |-> FALSE]

\* gameOver.on.RESTART_GAME
RESTART_GAME(st, ctx) ==
  IF st = "gameOver"
  THEN result("lobby", initialContext(ctx.gameId + 1), TRUE)
  ELSE dropped(st, ctx)

\* A filter that stops at the first player with the id and drops everyone
\* after them too (faulty variant).
RECURSIVE withoutPlayerAndAfter(_, _)
withoutPlayerAndAfter(ps, playerId) ==
  IF ps = <<>> THEN <<>>
  ELSE IF Head(ps).id = playerId THEN <<>>
  ELSE <<Head(ps)>> \o withoutPlayerAndAfter(Tail(ps), playerId)

\* gameOver.on.LEAVE_GAME
RECURSIVE withoutPlayer(_, _)
withoutPlayer(ps, playerId) ==
  IF ps = <<>> THEN <<>>
  ELSE IF Head(ps).id = playerId THEN withoutPlayer(Tail(ps), playerId)
  ELSE <<Head(ps)>> \o withoutPlayer(Tail(ps), playerId)

\* A LEAVE_GAME that gameEnding handles too (faulty variant).
LEAVE_GAME_whenEnding(st, ctx, playerId) ==
  IF st \in {"gameEnding", "gameOver"}
  THEN [state |-> st,
        context |-> [ctx EXCEPT !.players =
                       SelectSeq(ctx.players, LAMBDA player : player.id # playerId)],
        handled |-> TRUE]
  ELSE [state |-> st, context |-> ctx, handled |-> FALSE]

LEAVE_GAME(st, ctx, playerId) ==
  IF st = "gameOver"
  THEN result("gameOver", [ctx EXCEPT !.players = withoutPlayer(ctx.players, playerId)], TRUE)
  ELSE dropped(st, ctx)


\* ------------------------------------------------- the machine on its own
noEvent == [type |-> "none", handled |-> FALSE, from |-> "lobby"]

\* The machine takes the event: state and context become the transition's.
take(r, type) ==
  /\ state' = r.state
  /\ context' = r.context
  /\ lastEvent' = [type |-> type, handled |-> r.handled, from |-> state]

\* No utility function has been called on its own.
noProbe == [fn |-> "none", cards |-> <<>>, top |-> 0, out |-> FALSE]

Init ==
  /\ state = "lobby"
  /\ context = initialContext(0)
  /\ lastEvent = noEvent
  /\ timeouts = <<>>
  /\ probe = noProbe

\* ---- what the environment sends (bounded)
\* Lobby's handleJoinGame registers a player under a fresh uuid, written as
\* the player's ordinal.
joinIds(ctx) == {Len(ctx.players) + 1}

\* The ids a card command carries: the current player's, the next player's
\* and 0, which nobody has.
senderIds(ctx) ==
  IF ctx.players = <<>> THEN {0}
  ELSE {0, currentPlayerOf(ctx).id,
        ctx.players[((ctx.currentPlayerIndex + 1) % Len(ctx.players)) + 1].id}

\* The remaining times a TIMER_TICK carries.
tickTimes == {-1, 0, InitialTimer - 1}

first(s) == IF s = <<>> THEN {} ELSE {s[1]}

\* The cards a selection names: the first card of the current player's hand,
\* the top of the discard pile (in nobody's hand) and the first card of the
\* next player's hand.
selectableCards(ctx) ==
  IF ctx.players = <<>> \/ ctx.discardPile = <<>> THEN {}
  ELSE first(currentPlayerOf(ctx).hand)
         \cup range(topOf(ctx.discardPile))
         \cup first(ctx.players[((ctx.currentPlayerIndex + 1) % Len(ctx.players)) + 1].hand)

\* The cards a play names: those, and the first and the last legal card of
\* the current player.
playableCards(ctx) ==
  IF ctx.players = <<>> \/ ctx.discardPile = <<>> THEN {}
  ELSE LET validCards == getValidCards(currentPlayerOf(ctx).hand,
                                       ctx.discardPile[Len(ctx.discardPile)])
       IN selectableCards(ctx) \cup first(validCards)
            \cup (IF validCards = <<>> THEN {} ELSE {validCards[Len(validCards)]})

seqsUpTo(S, n) == UNION { [1..k -> S] : k \in 0..n }

inPlay == state \in {"playerTurn", "waitingForTurn"}

\* Plays and skips are sent while the round is short of MaxDiscard entries
\* in the discard pile and the notification log.
moreMoves == Len(context.discardPile) + Len(context.autoPlayNotifications) < MaxDiscard

Join ==
  /\ state = "lobby"
  /\ Len(context.players) < MaxPlayers
  /\ \E playerId \in joinIds(context) :
       take(PLAYER_JOIN(state, context, playerId, Len(context.players) + 1), "PLAYER_JOIN")
  /\ UNCHANGED <<timeouts, probe>>

Start ==
  /\ state = "lobby"
  /\ \E seed \in Seeds : take(START_GAME(state, context, seed), "START_GAME")
  /\ UNCHANGED <<timeouts, probe>>

AfterGameStarting ==
  /\ state = "gameStarting"
  /\ take(result("playerTurn", dealt(context), TRUE), "after")
  /\ UNCHANGED <<timeouts, probe>>

End ==
  /\ inPlay
  /\ take(END_GAME(state, context), "END_GAME")
  /\ UNCHANGED <<timeouts, probe>>

Skip ==
  /\ inPlay /\ moreMoves
  /\ take(SKIP_TURN(state, context), "SKIP_TURN")
  /\ UNCHANGED <<timeouts, probe>>

Select ==
  /\ inPlay
  /\ \E cardId \in selectableCards(context), playerId \in senderIds(context) :
       take(CARD_SELECTED(state, context, cardId, playerId), "CARD_SELECTED")
  /\ UNCHANGED <<timeouts, probe>>

Deselect ==
  /\ inPlay
  /\ \E cardId \in selectableCards(context), playerId \in senderIds(context) :
       take(CARD_DESELECTED(state, context, cardId, playerId), "CARD_DESELECTED")
  /\ UNCHANGED <<timeouts, probe>>

Play ==
  /\ inPlay /\ moreMoves
  /\ \E cards \in seqsUpTo(playableCards(context), MaxPlay),
        playerId \in senderIds(context) :
       take(PLAY_CARDS(state, context, cards, playerId), "PLAY_CARDS")
  /\ UNCHANGED <<timeouts, probe>>

AutoPlay ==
  /\ inPlay /\ moreMoves
  /\ \E card \in playableCards(context), playerId \in senderIds(context) :
       take(AUTO_PLAY(state, context, card, playerId), "AUTO_PLAY")
  /\ UNCHANGED <<timeouts, probe>>

Tick ==
  /\ inPlay
  /\ \E remainingTime \in tickTimes :
       take(TIMER_TICK(state, context, remainingTime), "TIMER_TICK")
  /\ UNCHANGED <<timeouts, probe>>

AfterWaitingForTurn ==
  /\ state = "waitingForTurn"
  /\ LET target == afterWaitingTarget(context)
     IN take(result(target,
                    IF target = "gameEnding" THEN gameEndingEntry(context)
                    ELSE playerTurnEntry(context),
                    TRUE), "after")
  /\ UNCHANGED <<timeouts, probe>>

AfterGameEnding ==
  /\ state = "gameEnding"
  /\ take(result("gameOver", context, TRUE), "after")
  /\ UNCHANGED <<timeouts, probe>>

Next ==
  \/ Join \/ Start \/ AfterGameStarting
  \/ End \/ Skip \/ Select \/ Deselect \/ Play \/ AutoPlay \/ Tick
  \/ AfterWaitingForTurn \/ AfterGameEnding

Spec == Init /\ [][Next]_vars


\* ------------------------------------------- rounds played to their end
\* The machine on its own, with players who send only what the rules allow,
\* as long as the round lasts.

\* The shuffles of the rounds played to their end.
RoundSeeds == {13, 24}

\* the lists of up to MaxPlay different cards of the current player's hand
\* that canPlayCards accepts on the discard top
legalPlays(ctx) ==
  IF ctx.players = <<>> \/ ctx.discardPile = <<>> THEN {}
  ELSE { cards \in seqsUpTo(range(currentPlayerOf(ctx).hand), MaxPlay) :
           /\ cards # <<>>
           /\ \A i, j \in 1..Len(cards) : cards[i] = cards[j] => i = j
           /\ canPlayCards(cards, ctx.discardPile[Len(ctx.discardPile)]) }

RoundJoin ==
  /\ state = "lobby"
  /\ Len(context.players) < RoundPlayers
  /\ \E playerId \in joinIds(context) :
       take(PLAYER_JOIN(state, context, playerId, Len(context.players) + 1), "PLAYER_JOIN")
  /\ UNCHANGED <<timeouts, probe>>

RoundStart ==
  /\ state = "lobby"
  /\ \E seed \in RoundSeeds : take(START_GAME(state, context, seed), "START_GAME")
  /\ UNCHANGED <<timeouts, probe>>

\* PLAY_CARDS by a player whom GameBoard leaves the choice
RoundPlay ==
  /\ state = "playerTurn"
  /\ Len(getValidCards(currentPlayerOf(context).hand,
                       context.discardPile[Len(context.discardPile)])) # 1
  /\ \E cards \in legalPlays(context) :
       take(PLAY_CARDS(state, context, cards, currentPlayerOf(context).id), "PLAY_CARDS")
  /\ UNCHANGED <<timeouts, probe>>

\* AUTO_PLAY of the player's only legal card, as GameBoard sends it
RoundAutoPlay ==
  /\ state = "playerTurn"
  /\ LET validCards == getValidCards(currentPlayerOf(context).hand,
                                     context.discardPile[Len(context.discardPile)])
     IN /\ Len(validCards) = 1
        /\ take(AUTO_PLAY(state, context, validCards[1], currentPlayerOf(context).id),
                "AUTO_PLAY")
  /\ UNCHANGED <<timeouts, probe>>

\* SKIP_TURN for a player without a legal card, as GameBoard sends it
RoundSkip ==
  /\ state = "playerTurn"
  /\ getValidCards(currentPlayerOf(context).hand,
                   context.discardPile[Len(context.discardPile)]) = <<>>
  /\ take(SKIP_TURN(state, context), "SKIP_TURN")
  /\ UNCHANGED <<timeouts, probe>>

\* RESTART_GAME, for MaxGames rounds after the first
RoundRestart ==
  /\ state = "gameOver"
  /\ context.gameId < MaxGames
  /\ take(RESTART_GAME(state, context), "RESTART_GAME")
  /\ UNCHANGED <<timeouts, probe>>

\* the id and the name a PLAYER_JOIN carries: the next free id, and a name
\* that is no player's id
lateId(ctx) == Len(ctx.players) + 1
lateName(ctx) == Len(ctx.players) + 1 + LobbyCap

\* The commands sent after the round is over, each with the transition the
\* machine has for it in state st: every event of GameEvent but RESTART_GAME
\* and LEAVE_GAME, with the first player's id and first card.
lateCommands(st, ctx) ==
  LET playerId == IF ctx.players = <<>> THEN 0 ELSE ctx.players[1].id
      cardId == IF ctx.players = <<>> \/ ctx.players[1].hand = <<>>
                THEN NoCard ELSE ctx.players[1].hand[1]
  IN { [type |-> "PLAYER_JOIN",
        r |-> PLAYER_JOIN(st, ctx, lateId(ctx), lateName(ctx))],
       [type |-> "START_GAME", r |-> START_GAME(st, ctx, CHOOSE seed \in RoundSeeds : TRUE)],
       [type |-> "END_GAME", r |-> END_GAME(st, ctx)],
       [type |-> "SKIP_TURN", r |-> SKIP_TURN(st, ctx)],
       [type |-> "CARD_SELECTED", r |-> CARD_SELECTED(st, ctx, cardId, playerId)],
       [type |-> "CARD_DESELECTED", r |-> CARD_DESELECTED(st, ctx, cardId, playerId)],
       [type |-> "PLAY_CARDS", r |-> PLAY_CARDS(st, ctx, <<cardId>>, playerId)],
       [type |-> "AUTO_PLAY", r |-> AUTO_PLAY(st, ctx, cardId, playerId)],
       [type |-> "TIMER_TICK", r |-> TIMER_TICK(st, ctx, 0)] }

\* a command arrives while the machine is in gameEnding
RoundLateInEnding ==
  /\ state = "gameEnding"
  /\ \E e \in lateCommands(state, context)
            \cup { [type |-> "RESTART_GAME", r |-> RESTART_GAME(state, context)],
                   [type |-> "LEAVE_GAME", r |-> LEAVE_GAME(state, context, 1)] } :
       take(e.r, e.type)
  /\ UNCHANGED <<timeouts, probe>>

\* a command other than RESTART_GAME and LEAVE_GAME arrives in gameOver
RoundLateInOver ==
  /\ state = "gameOver"
  /\ \E e \in lateCommands(state, context) : take(e.r, e.type)
  /\ UNCHANGED <<timeouts, probe>>

\* LEAVE_GAME of a player of the round, or of id 0 that nobody has
RoundLeave ==
  /\ state = "gameOver"
  /\ \E playerId \in {0} \cup { context.players[i].id : i \in 1..Len(context.players) } :
       take(LEAVE_GAME(state, context, playerId), "LEAVE_GAME")
  /\ UNCHANGED <<timeouts, probe>>

RoundNext ==
  \/ RoundJoin \/ RoundStart \/ AfterGameStarting
  \/ RoundPlay \/ RoundAutoPlay \/ RoundSkip
  \/ AfterWaitingForTurn \/ AfterGameEnding \/ RoundRestart
  \/ RoundLateInEnding \/ RoundLateInOver \/ RoundLeave

SpecRound == Init /\ [][RoundNext]_vars

\* ------------------------------------------- selecting and deselecting
\* the first n elements of s
firstN(s, n) == IF Len(s) > n THEN SubSeq(s, 1, n) ELSE s

\* The card ids a selection command of the current player names: the first
\* MaxSelect cards of their hand, the next player's first card and the
\* discard top, which are not in their hand.
namedCards(ctx) ==
  range(firstN(currentPlayerOf(ctx).hand, MaxSelect))
    \cup range(topOf(ctx.discardPile))
    \cup first(ctx.players[((ctx.currentPlayerIndex + 1) % Len(ctx.players)) + 1].hand)

SelectCard ==
  /\ state = "playerTurn"
  /\ \E cardId \in namedCards(context) :
       take(CARD_SELECTED(state, context, cardId, currentPlayerOf(context).id),
            "CARD_SELECTED")
  /\ UNCHANGED <<timeouts, probe>>

DeselectCard ==
  /\ state = "playerTurn"
  /\ \E cardId \in namedCards(context) :
       take(CARD_DESELECTED(state, context, cardId, currentPlayerOf(context).id),
            "CARD_DESELECTED")
  /\ UNCHANGED <<timeouts, probe>>

\* SKIP_TURN, once a round, so that the second player's turn is reached
SelectSkip ==
  /\ state = "playerTurn"
  /\ context.autoPlayNotifications = <<>>
  /\ take(SKIP_TURN(state, context), "SKIP_TURN")
  /\ UNCHANGED <<timeouts, probe>>

SelectNext ==
  \/ RoundJoin \/ RoundStart \/ AfterGameStarting
  \/ SelectCard \/ DeselectCard \/ SelectSkip \/ AfterWaitingForTurn

SpecSelect == Init /\ [][SelectNext]_vars

\* ------------------------------------------- the notification log
\* SKIP_TURN, as often as the environment likes
LogSkip ==
  /\ state = "playerTurn"
  /\ take(SKIP_TURN(state, context), "SKIP_TURN")
  /\ UNCHANGED <<timeouts, probe>>

\* AUTO_PLAY of the current player's first legal card, while the discard
\* pile is short of MaxDiscard cards
LogAutoPlay ==
  /\ state = "playerTurn"
  /\ Len(context.discardPile) < MaxDiscard
  /\ LET validCards == getValidCards(currentPlayerOf(context).hand,
                                     context.discardPile[Len(context.discardPile)])
     IN /\ validCards # <<>>
        /\ take(AUTO_PLAY(state, context, validCards[1], currentPlayerOf(context).id),
                "AUTO_PLAY")
  /\ UNCHANGED <<timeouts, probe>>

LogNext ==
  \/ RoundJoin \/ RoundStart \/ AfterGameStarting
  \/ LogSkip \/ LogAutoPlay \/ AfterWaitingForTurn
  \/ End \/ AfterGameEnding \/ RoundRestart

SpecLog == Init /\ [][LogNext]_vars

\* ------------------------------------------- every command in every state
\* Every event of GameEvent that the machine has a transition for, with the
\* transition it takes in state st: the late commands, TIMER_TICK with time
\* left, RESTART_GAME and LEAVE_GAME of the first player.
allCommands(st, ctx) ==
  lateCommands(st, ctx)
    \cup { [type |-> "TIMER_TICK", r |-> TIMER_TICK(st, ctx, InitialTimer - 1)],
           [type |-> "RESTART_GAME", r |-> RESTART_GAME(st, ctx)],
           [type |-> "LEAVE_GAME",
            r |-> LEAVE_GAME(st, ctx, IF ctx.players = <<>> THEN 0 ELSE ctx.players[1].id)] }

\* A command arrives, whatever the state. The roster stops at RoundPlayers,
\* a round's plays and skips at MaxDiscard, restarts at MaxGames.
FlowCommand ==
  /\ \E e \in allCommands(state, context) :
       /\ (state = "lobby" /\ e.type = "PLAYER_JOIN")
            => Len(context.players) < RoundPlayers
       /\ (state = "playerTurn" /\ e.type \in {"SKIP_TURN", "PLAY_CARDS", "AUTO_PLAY"})
            => moreMoves
       /\ (state = "gameOver" /\ e.type = "RESTART_GAME") => context.gameId < MaxGames
       /\ take(e.r, e.type)
  /\ UNCHANGED <<timeouts, probe>>

FlowNext ==
  \/ FlowCommand \/ AfterGameStarting \/ AfterWaitingForTurn \/ AfterGameEnding

SpecFlow == Init /\ [][FlowNext]_vars

\* ------------------------------------------- the machine under the timer effect
\* The timer effect's interval callback:
\*   send({ type: "TIMER_TICK", remainingTime: Math.max(0, context.gameTimer - 1) })
TimerTick ==
  /\ state \in {"playerTurn", "waitingForTurn"}
  /\ LET newTime == IF context.gameTimer - 1 > 0 THEN context.gameTimer - 1 ELSE 0
     IN take(TIMER_TICK(state, context, newTime), "TIMER_TICK")
  /\ UNCHANGED <<timeouts, probe>>

\* The players select and deselect, skip once, auto-play and end the round
\* at any moment between two ticks.
TimerNext ==
  \/ RoundJoin \/ RoundStart \/ AfterGameStarting
  \/ TimerTick
  \/ Select \/ Deselect \/ SelectSkip \/ LogAutoPlay \/ End
  \/ AfterWaitingForTurn \/ AfterGameEnding

\* The interval keeps ticking while the round is played: weak fairness of
\* TimerTick, which is enabled exactly in playerTurn and waitingForTurn.
ticksCome ==
  []<>(state \notin {"playerTurn", "waitingForTurn"}) \/ []<><<TimerTick>>_vars

\* gameEnding's delay elapses: weak fairness of AfterGameEnding.
endingDelayElapses ==
  []<>(state # "gameEnding") \/ []<><<AfterGameEnding>>_vars

SpecTimer == Init /\ [][TimerNext]_vars /\ ticksCome /\ endingDelayElapses

\* ------------------------------------------- the lobby filling up
\* PLAYER_JOIN sent to the machine itself, up to MaxRoster times a lobby
JoinMachine ==
  /\ state = "lobby"
  /\ Len(context.players) < MaxRoster
  /\ take(PLAYER_JOIN(state, context, lateId(context), lateName(context)), "PLAYER_JOIN")
  /\ UNCHANGED <<timeouts, probe>>

JoinNext ==
  \/ JoinMachine \/ Start \/ AfterGameStarting
  \/ Select \/ Deselect \/ SelectSkip \/ AfterWaitingForTurn
  \/ End \/ AfterGameEnding

SpecJoin == Init /\ [][JoinNext]_vars

\* ------------------------------------------- the utility functions alone
\* The cards handed to canPlayCards on its own: two suits of the deck.
probeCards == 0 .. (2 * NumValues - 1)

CallCanPlayCard ==
  /\ probe = noProbe
  /\ \E card \in Cards, top \in Cards :
       probe' = [fn |-> "canPlayCard", cards |-> <<card>>, top |-> top,
                 out |-> canPlayCard(card, top)]
  /\ UNCHANGED <<state, context, lastEvent, timeouts>>

SpecCanPlayCard == Init /\ [][CallCanPlayCard]_vars

CallCanPlayCards ==
  /\ probe = noProbe
  /\ \E cards \in seqsUpTo(probeCards, MaxCards), top \in 0 .. (NumValues - 1) :
       probe' = [fn |-> "canPlayCards", cards |-> cards, top |-> top,
                 out |-> canPlayCards(cards, top)]
  /\ UNCHANGED <<state, context, lastEvent, timeouts>>

SpecCanPlayCards == Init /\ [][CallCanPlayCards]_vars


\* ------------------------------------------- the machine under GameBoard
\* GameBoard sends the machine every event it gets. After each change of the
\* snapshot React renders and runs the effects whose dependencies changed
\* before the next task; the auto-play effect schedules its send with
\* setTimeout(0) and never cancels it.

\* the auto-play effect's dependency list
autoPlayDeps(st, ctx) ==
  <<st, ctx.currentPlayerIndex, Len(ctx.selectedCards), Len(ctx.players),
    Len(ctx.discardPile)>>

skipTimeout == [type |-> "SKIP_TURN", card |-> NoCard, playerId |-> 0]

\* An effect that auto-plays only when the player holds no other card (faulty variant).
autoPlayEffectLastCardOnly(st, ctx) ==
  IF st = "playerTurn" /\ Len(ctx.selectedCards) = 0
       /\ ctx.currentPlayerIndex < Len(ctx.players) /\ ctx.discardPile # <<>>
  THEN LET currentPlayer == currentPlayerOf(ctx)
           validCards == getValidCards(currentPlayer.hand,
                                       ctx.discardPile[Len(ctx.discardPile)])
       IN IF Len(validCards) = 1 /\ Len(currentPlayer.hand) = 1
          THEN <<[type |-> "AUTO_PLAY", card |-> validCards[1],
                  playerId |-> currentPlayer.id]>>
          ELSE IF Len(validCards) = 0 THEN <<skipTimeout>>
          ELSE <<>>
  ELSE <<>>

\* the body of the auto-play effect: the callbacks it hands to setTimeout
autoPlayEffect(st, ctx) ==
  IF st = "playerTurn" /\ Len(ctx.selectedCards) = 0
       /\ ctx.currentPlayerIndex < Len(ctx.players) /\ ctx.discardPile # <<>>
  THEN LET currentPlayer == currentPlayerOf(ctx)
           validCards == getValidCards(currentPlayer.hand,
                                       ctx.discardPile[Len(ctx.discardPile)])
       IN IF Len(validCards) = 1
          THEN <<[type |-> "AUTO_PLAY", card |-> validCards[1],
                  playerId |-> currentPlayer.id]>>
          ELSE IF Len(validCards) = 0 THEN <<skipTimeout>>
          ELSE <<>>
  ELSE <<>>

\* GameBoard sends an event: the machine takes it, and the effect runs if
\* the render that follows finds a dependency changed. `left` are the
\* callbacks still pending.
send(r, type, left) ==
  /\ take(r, type)
  /\ timeouts' = IF autoPlayDeps(r.state, r.context) # autoPlayDeps(state, context)
                 THEN left \o autoPlayEffect(r.state, r.context)
                 ELSE left
  /\ UNCHANGED probe

\* Lobby.handleJoinGame (the name typed is written as the player's ordinal)
BoardJoin ==
  /\ state = "lobby"
  /\ Len(context.players) < LobbyCap
  /\ Len(context.players) < MaxPlayers
  /\ send(PLAYER_JOIN(state, context, Len(context.players) + 1, Len(context.players) + 1),
          "PLAYER_JOIN", timeouts)

\* Lobby's start button
BoardStart ==
  /\ state = "lobby"
  /\ \E seed \in Seeds : send(START_GAME(state, context, seed), "START_GAME", timeouts)

\* A delay of the machine elapses. A setTimeout(0) callback scheduled no
\* later than the delay began runs first.
BoardAfterGameStarting ==
  /\ state = "gameStarting"
  /\ timeouts = <<>>
  /\ send(result("playerTurn", dealt(context), TRUE), "after", timeouts)

BoardAfterWaitingForTurn ==
  /\ state = "waitingForTurn"
  /\ timeouts = <<>>
  /\ LET target == afterWaitingTarget(context)
     IN send(result(target,
                    IF target = "gameEnding" THEN gameEndingEntry(context)
                    ELSE playerTurnEntry(context),
                    TRUE), "after", timeouts)

BoardAfterGameEnding ==
  /\ state = "gameEnding"
  /\ timeouts = <<>>
  /\ send(result("gameOver", context, TRUE), "after", timeouts)

\* The oldest setTimeout(0) callback runs.
TimeoutFires ==
  /\ timeouts # <<>>
  /\ LET t == Head(timeouts)
     IN IF t.type = "AUTO_PLAY"
        THEN send(AUTO_PLAY(state, context, t.card, t.playerId), "AUTO_PLAY", Tail(timeouts))
        ELSE send(SKIP_TURN(state, context), "SKIP_TURN", Tail(timeouts))

\* handleCardSelect: a click on a card of the current player's hand (the
\* hands take clicks in playerTurn only). The clicks explored are on the
\* player's legal cards and on the first card of the hand, while fewer than
\* MaxPending callbacks are pending.
BoardClickCard ==
  /\ state = "playerTurn"
  /\ context.currentPlayerIndex < Len(context.players)
  /\ Len(context.discardPile) < MaxDiscard
  /\ Len(timeouts) < MaxPending
  /\ LET currentPlayer == currentPlayerOf(context)
     IN \E cardId \in first(currentPlayer.hand)
                        \cup range(getValidCards(currentPlayer.hand,
                                     context.discardPile[Len(context.discardPile)])) :
          IF cardId \in range(context.selectedCards)
          THEN send(CARD_DESELECTED(state, context, cardId, currentPlayer.id),
                    "CARD_DESELECTED", timeouts)
          ELSE send(CARD_SELECTED(state, context, cardId, currentPlayer.id),
                    "CARD_SELECTED", timeouts)

\* handlePlayCards and the SPACE key
BoardPlayCards ==
  /\ state = "playerTurn"
  /\ context.currentPlayerIndex < Len(context.players)
  /\ Len(context.selectedCards) > 0
  /\ send(PLAY_CARDS(state, context, context.selectedCards, currentPlayerOf(context).id),
          "PLAY_CARDS", timeouts)

\* The End Game button, shown in playerTurn while no player has a legal card
BoardEndGame ==
  /\ state = "playerTurn"
  /\ ~hasAnyValidMoves(context)
  /\ send(END_GAME(state, context), "END_GAME", timeouts)

\* The timer effect's interval: it is set anew after every change of the
\* snapshot, so a tick comes a second after the last change, when no
\* setTimeout(0) callback is pending. Ticks are explored down to
\* InitialTimer - MaxTicks.
BoardTick ==
  /\ state \in {"playerTurn", "waitingForTurn"}
  /\ timeouts = <<>>
  /\ context.gameTimer > InitialTimer - MaxTicks
  /\ LET newTime == IF context.gameTimer - 1 > 0 THEN context.gameTimer - 1 ELSE 0
     IN send(TIMER_TICK(state, context, newTime), "TIMER_TICK", timeouts)

BoardNext ==
  \/ BoardJoin \/ BoardStart \/ BoardAfterGameStarting
  \/ BoardAfterWaitingForTurn \/ BoardAfterGameEnding
  \/ TimeoutFires \/ BoardClickCard \/ BoardPlayCards \/ BoardEndGame \/ BoardTick

\* setTimeout(0) callbacks run: a pending one is not put off for ever. This
\* is weak fairness of TimeoutFires, with ENABLED <<TimeoutFires>>_vars
\* written out: a callback is pending, and running it shortens or changes
\* the queue.
timeoutsRun == []<>(timeouts = <<>>) \/ []<><<TimeoutFires>>_vars

BoardSpec == Init /\ [][BoardNext]_vars /\ timeoutsRun

\* ------------------------------------------- the machine under the GameBoard
\* with the Auto-Play switch, switched on. Its auto-play effect depends on
\* the whole context, so it runs again after every change of the snapshot,
\* and hands its send to setTimeout with 3000 ms (AUTO_PLAY) or 4000 ms
\* (SKIP_TURN), never cancelled. The model carries no clock: a pending
\* callback runs before or after a delay of the machine and before or after
\* a tick, the callbacks among themselves in the order they were scheduled.

\* the body of the auto-play effect: the callbacks it hands to setTimeout
delayedAutoPlayEffect(st, ctx) ==
  IF st = "playerTurn" /\ ctx.currentPlayerIndex < Len(ctx.players) /\ ctx.discardPile # <<>>
  THEN LET currentPlayer == currentPlayerOf(ctx)
           validCards == getValidCards(currentPlayer.hand,
                                       ctx.discardPile[Len(ctx.discardPile)])
       IN IF Len(validCards) = 1 /\ Len(ctx.selectedCards) = 0
          THEN <<[type |-> "AUTO_PLAY", card |-> validCards[1],
                  playerId |-> currentPlayer.id]>>
          ELSE IF Len(validCards) = 0 THEN <<skipTimeout>>
          ELSE <<>>
  ELSE <<>>

\* GameBoard sends an event: the machine takes it, and the effect runs if
\* the render that follows finds the state or the context changed.
sendDelayed(r, type, left) ==
  /\ take(r, type)
  /\ timeouts' = IF r.state # state \/ r.context # context
                 THEN left \o delayedAutoPlayEffect(r.state, r.context)
                 ELSE left
  /\ UNCHANGED probe

DelayedJoin ==
  /\ state = "lobby"
  /\ Len(context.players) < LobbyCap
  /\ Len(context.players) < RoundPlayers
  /\ sendDelayed(PLAYER_JOIN(state, context, Len(context.players) + 1, Len(context.players) + 1),
                 "PLAYER_JOIN", timeouts)

DelayedStart ==
  /\ state = "lobby"
  /\ \E seed \in Seeds \cup RoundSeeds :
       sendDelayed(START_GAME(state, context, seed), "START_GAME", timeouts)

DelayedAfterGameStarting ==
  /\ state = "gameStarting"
  /\ sendDelayed(result("playerTurn", dealt(context), TRUE), "after", timeouts)

DelayedAfterWaitingForTurn ==
  /\ state = "waitingForTurn"
  /\ LET target == afterWaitingTarget(context)
     IN sendDelayed(result(target,
                           IF target = "gameEnding" THEN gameEndingEntry(context)
                           ELSE playerTurnEntry(context),
                           TRUE), "after", timeouts)

DelayedAfterGameEnding ==
  /\ state = "gameEnding"
  /\ sendDelayed(result("gameOver", context, TRUE), "after", timeouts)

\* The oldest pending callback runs.
DelayedTimeoutFires ==
  /\ timeouts # <<>>
  /\ LET t == Head(timeouts)
     IN IF t.type = "AUTO_PLAY"
        THEN sendDelayed(AUTO_PLAY(state, context, t.card, t.playerId), "AUTO_PLAY",
                         Tail(timeouts))
        ELSE sendDelayed(SKIP_TURN(state, context), "SKIP_TURN", Tail(timeouts))

\* handleCardSelect: a click on a legal card or on the first card of the
\* current player's hand, while fewer than MaxPending callbacks are pending
DelayedClickCard ==
  /\ state = "playerTurn"
  /\ context.currentPlayerIndex < Len(context.players)
  /\ Len(context.discardPile) < MaxDiscard
  /\ Len(timeouts) < MaxPending
  /\ LET currentPlayer == currentPlayerOf(context)
     IN \E cardId \in first(currentPlayer.hand)
                        \cup range(getValidCards(currentPlayer.hand,
                                     context.discardPile[Len(context.discardPile)])) :
          IF cardId \in range(context.selectedCards)
          THEN sendDelayed(CARD_DESELECTED(state, context, cardId, currentPlayer.id),
                           "CARD_DESELECTED", timeouts)
          ELSE sendDelayed(CARD_SELECTED(state, context, cardId, currentPlayer.id),
                           "CARD_SELECTED", timeouts)

\* handlePlayCards and the SPACE key
DelayedPlayCards ==
  /\ state = "playerTurn"
  /\ context.currentPlayerIndex < Len(context.players)
  /\ Len(context.selectedCards) > 0
  /\ sendDelayed(PLAY_CARDS(state, context, context.selectedCards, currentPlayerOf(context).id),
                 "PLAY_CARDS", timeouts)

\* The End Game button, shown in playerTurn while no player has a legal card
DelayedEndGame ==
  /\ state = "playerTurn"
  /\ ~hasAnyValidMoves(context)
  /\ sendDelayed(END_GAME(state, context), "END_GAME", timeouts)

\* The timer effect's interval; ticks are explored down to
\* InitialTimer - MaxTicks, while fewer than MaxPending callbacks are pending.
DelayedTick ==
  /\ state \in {"playerTurn", "waitingForTurn"}
  /\ context.gameTimer > InitialTimer - MaxTicks
  /\ Len(timeouts) < MaxPending
  /\ LET newTime == IF context.gameTimer - 1 > 0 THEN context.gameTimer - 1 ELSE 0
     IN sendDelayed(TIMER_TICK(state, context, newTime), "TIMER_TICK", timeouts)

DelayedNext ==
  \/ DelayedJoin \/ DelayedStart \/ DelayedAfterGameStarting
  \/ DelayedAfterWaitingForTurn \/ DelayedAfterGameEnding
  \/ DelayedTimeoutFires \/ DelayedClickCard \/ DelayedPlayCards
  \/ DelayedEndGame \/ DelayedTick

DelayedSpec == Init /\ [][DelayedNext]_vars

\* ================================================================ claims
\* ---- vocabulary of the claims, written without the model's helpers
rankOf(c) == (c % 13) + 1

\* the card's rank is the top's rank or the next one, King followed by Ace
legalOn(c, top) == rankOf(c) = rankOf(top) \/ rankOf(c) = (rankOf(top) % 13) + 1

hasLegalCard(ctx, i) ==
  /\ ctx.discardPile # <<>>
  /\ \E j \in 1..Len(ctx.players[i].hand) :
       legalOn(ctx.players[i].hand[j], ctx.discardPile[Len(ctx.discardPile)])

someoneHasLegalCard(ctx) == \E i \in 1..Len(ctx.players) : hasLegalCard(ctx, i)

handsOf(ctx) == [i \in 1..Len(ctx.players) |-> ctx.players[i].hand]

playLists == seqsUpTo(playableCards(context), MaxPlay)

\* An accepted play of `cards` by the current player: the hands, the pile,
\* the selection, the deck, the timer and the state afterwards.
playFrame(cards) ==
  LET cur == context.currentPlayerIndex + 1
  IN /\ state' = "waitingForTurn"
     /\ Len(context'.players) = Len(context.players)
     /\ context'.players[cur].hand =
          SelectSeq(context.players[cur].hand,
                    LAMBDA c : \A k \in 1..Len(cards) : cards[k] # c)
     /\ \A i \in 1..Len(context.players) :
          i # cur => context'.players[i].hand = context.players[i].hand
     /\ context'.discardPile = context.discardPile \o cards
     /\ context'.discardPile[Len(context'.discardPile)] = cards[Len(cards)]
     /\ context'.selectedCards = <<>>
     /\ context'.deck = context.deck
     /\ context'.gameTimer = context.gameTimer

acceptedPlay(cards, playerId) ==
  /\ state = "playerTurn"
  /\ take(PLAY_CARDS(state, context, cards, playerId), "PLAY_CARDS")
  /\ lastEvent'.handled

acceptedAutoPlay(card, playerId) ==
  /\ state = "playerTurn"
  /\ take(AUTO_PLAY(state, context, card, playerId), "AUTO_PLAY")
  /\ lastEvent'.handled

\* the step is an accepted PLAY_CARDS or AUTO_PLAY
justAccepted ==
  /\ state = "playerTurn"
  /\ lastEvent'.type \in {"PLAY_CARDS", "AUTO_PLAY"}
  /\ lastEvent'.handled

\* C1 (as stated): an accepted PLAY_CARDS or AUTO_PLAY removes the played
\* cards from the current player's hand, appends them in the order given to
\* the discard pile, empties selectedCards, leaves the other hands, the deck
\* and gameTimer alone, moves to waitingForTurn, and leaves isCurrentPlayer
\* false for every player.
C1_AsStated ==
  [][ justAccepted =>
      /\ \A cards \in playLists, playerId \in senderIds(context) :
           acceptedPlay(cards, playerId) =>
             /\ playFrame(cards)
             /\ \A i \in 1..Len(context'.players) : ~context'.players[i].isCurrentPlayer
      /\ \A card \in playableCards(context), playerId \in senderIds(context) :
           acceptedAutoPlay(card, playerId) =>
             /\ playFrame(<<card>>)
             /\ \A i \in 1..Len(context'.players) : ~context'.players[i].isCurrentPlayer
    ]_vars

\* C1 (amended): as above, except that on arrival in waitingForTurn
\* isCurrentPlayer is true for exactly the player at the new
\* currentPlayerIndex (waitingForTurn's entry sets it in the same step).
C1_PlayFrame ==
  [][ justAccepted =>
      /\ \A cards \in playLists, playerId \in senderIds(context) :
           acceptedPlay(cards, playerId) =>
             /\ playFrame(cards)
             /\ \A i \in 1..Len(context'.players) :
                  context'.players[i].isCurrentPlayer
                    <=> (i - 1 = context'.currentPlayerIndex)
      /\ \A card \in playableCards(context), playerId \in senderIds(context) :
           acceptedAutoPlay(card, playerId) =>
             /\ playFrame(<<card>>)
             /\ \A i \in 1..Len(context'.players) :
                  context'.players[i].isCurrentPlayer
                    <=> (i - 1 = context'.currentPlayerIndex)
    ]_vars

\* A two-card play has just been accepted.
C1_Witness ==
  /\ state = "waitingForTurn"
  /\ lastEvent = [type |-> "PLAY_CARDS", handled |-> TRUE, from |-> "playerTurn"]
  /\ Len(context.discardPile) >= 3
  /\ Len(context.players[1].hand) < CardsPerPlayer

\* C2: in playerTurn a PLAY_CARDS whose card list is empty or fails
\* canPlayCards on the discard top changes neither the state nor any field
\* of the context.
C2_RejectedPlay ==
  [][ ( /\ state = "playerTurn"
        /\ lastEvent'.type = "PLAY_CARDS"
        /\ \E cards \in playLists, playerId \in senderIds(context) :
             /\ cards = <<>>
                  \/ ~canPlayCards(cards, context.discardPile[Len(context.discardPile)])
             /\ take(PLAY_CARDS(state, context, cards, playerId), "PLAY_CARDS") )
      => /\ state' = "playerTurn"
         /\ context' = context
         /\ ~lastEvent'.handled
    ]_vars

\* A PLAY_CARDS has just been refused in playerTurn.
C2_Witness ==
  /\ state = "playerTurn"
  /\ lastEvent = [type |-> "PLAY_CARDS", handled |-> FALSE, from |-> "playerTurn"]

\* C5: on entering waitingForTurn while some player holds a legal card, the
\* new currentPlayerIndex is the first index of old+1, old+2, ..., old
\* (cyclically) whose hand holds a legal card.
C5_NextPlayer ==
  [][ ( /\ state = "playerTurn"
        /\ state' = "waitingForTurn"
        /\ someoneHasLegalCard(context') )
      => LET n == Len(context.players)
             old == context.currentPlayerIndex
             new == context'.currentPlayerIndex
         IN \E d \in 1..n :
              /\ new = (old + d) % n
              /\ hasLegalCard(context', new + 1)
              /\ \A e \in 1..(d - 1) : ~hasLegalCard(context', ((old + e) % n) + 1)
    ]_vars

\* After the round's first move (by player 0) the scan passed over player 1,
\* who holds no legal card, and stopped at player 2.
C5_Witness ==
  /\ state = "waitingForTurn"
  /\ lastEvent.handled /\ lastEvent.from = "playerTurn"
  /\ Len(context.discardPile) + Len(context.autoPlayNotifications) = 2
  /\ context.currentPlayerIndex = 2
  /\ ~hasLegalCard(context, 2)
  /\ hasLegalCard(context, 3)

\* C6: when the waitingForTurn delay elapses and no player holds a card
\* that is legal on the discard top, the machine goes to gameEnding; it
\* goes back to playerTurn only if some player holds a legal card.
C6_Deadlock ==
  [][ ( /\ state = "waitingForTurn"
        /\ lastEvent'.type = "after" )
      => /\ ~someoneHasLegalCard(context) => state' = "gameEnding"
         /\ state' = "playerTurn" => someoneHasLegalCard(context)
    ]_vars

\* The delay has elapsed with nobody holding a legal card.
C6_Witness ==
  /\ state = "gameEnding"
  /\ lastEvent = [type |-> "after", handled |-> TRUE, from |-> "waitingForTurn"]
  /\ ~someoneHasLegalCard(context)

\* C8: SKIP_TURN in playerTurn appends one auto-skip notification naming
\* the current player with card = null, moves to waitingForTurn and leaves
\* every hand, the discard pile and the deck unchanged.
C8_SkipTurn ==
  [][ ( /\ state = "playerTurn"
        /\ lastEvent'.type = "SKIP_TURN"
        /\ take(SKIP_TURN(state, context), "SKIP_TURN") )
      => LET cur == context.players[context.currentPlayerIndex + 1]
             note == [playerId |-> cur.id, playerName |-> cur.name,
                      card |-> NoCard, type |-> "auto-skip"]
             log == context.autoPlayNotifications
         IN /\ state' = "waitingForTurn"
            /\ context'.autoPlayNotifications =
                 IF Len(log) < NotificationCap THEN Append(log, note)
                 ELSE Append(Tail(log), note)
            /\ handsOf(context') = handsOf(context)
            /\ context'.discardPile = context.discardPile
            /\ context'.deck = context.deck
    ]_vars

\* A SKIP_TURN has just been taken.
C8_Witness ==
  /\ state = "waitingForTurn"
  /\ lastEvent = [type |-> "SKIP_TURN", handled |-> TRUE, from |-> "playerTurn"]
  /\ context.autoPlayNotifications # <<>>
  /\ context.autoPlayNotifications[Len(context.autoPlayNotifications)].type = "auto-skip"

\* C9: a TIMER_TICK with remainingTime <= 0 received in playerTurn or in
\* waitingForTurn moves the machine to gameEnding and sets gameTimer to the
\* value received, whatever the pending delayed transition would do.
C9_TimerExpiry ==
  [][ \A remainingTime \in tickTimes :
        ( /\ state \in {"playerTurn", "waitingForTurn"}
          /\ lastEvent'.type = "TIMER_TICK"
          /\ remainingTime <= 0
          /\ take(TIMER_TICK(state, context, remainingTime), "TIMER_TICK") )
        => /\ state' = "gameEnding"
           /\ context'.gameTimer = remainingTime
    ]_vars

\* The timer expired in waitingForTurn while the pending delay would have
\* gone on to playerTurn.
C9_Witness ==
  /\ state = "gameEnding"
  /\ lastEvent = [type |-> "TIMER_TICK", handled |-> TRUE, from |-> "waitingForTurn"]
  /\ context.gameTimer <= 0
  /\ someoneHasLegalCard(context)

\* C10: END_GAME received in playerTurn moves the machine to gameEnding,
\* whoever the current player is and whatever is selected.
C10_EndGame ==
  [][ ( /\ state = "playerTurn"
        /\ lastEvent'.type = "END_GAME"
        /\ take(END_GAME(state, context), "END_GAME") )
      => state' = "gameEnding"
    ]_vars

\* END_GAME has just ended a turn of a player other than the first, with a
\* card selected.
C10_Witness ==
  /\ state = "gameEnding"
  /\ lastEvent = [type |-> "END_GAME", handled |-> TRUE, from |-> "playerTurn"]
  /\ context.selectedCards # <<>>
  /\ context.currentPlayerIndex > 0


\* C3: canPlayCard(card, top) is true exactly when the card's rank is the
\* top's rank or its successor in the cyclic order A, 2, ..., K, A, for
\* every pair of ranks and suits.
C3_CanPlayCard ==
  probe.fn = "canPlayCard" =>
    (probe.out <=> legalOn(probe.cards[1], probe.top))

\* canPlayCard has accepted an Ace on a King of another suit.
C3_Witness ==
  /\ probe.fn = "canPlayCard"
  /\ rankOf(probe.cards[1]) = 1 /\ rankOf(probe.top) = 13
  /\ probe.cards[1] \div 13 # probe.top \div 13
  /\ probe.out

RECURSIVE rankSum(_)
rankSum(cards) == IF cards = <<>> THEN 0 ELSE rankOf(Head(cards)) + rankSum(Tail(cards))

\* the rule of C4
playableAsClaimed(cards, top) ==
  IF Len(cards) = 0 THEN FALSE
  ELSE IF Len(cards) = 1 THEN legalOn(cards[1], top)
  ELSE \/ \A i \in 1..Len(cards) : legalOn(cards[i], top)
       \/ /\ \A i \in 1..Len(cards) : rankOf(cards[i]) = rankOf(cards[1])
          /\ legalOn(cards[1], top)
       \/ rankSum(cards) = rankOf(top)

permutationsOf(n) == { p \in [1..n -> 1..n] : \A i, j \in 1..n : p[i] = p[j] => i = j }

\* C4: canPlayCards is false for the empty list, canPlayCard for one card,
\* and for two or more cards true exactly when all are individually legal,
\* or all share one legal rank, or their values sum to the top's value; and
\* it gives the same result for every ordering of the cards.
C4_CanPlayCards ==
  probe.fn = "canPlayCards" =>
    /\ probe.out <=> playableAsClaimed(probe.cards, probe.top)
    /\ \A p \in permutationsOf(Len(probe.cards)) :
         canPlayCards([i \in 1..Len(probe.cards) |-> probe.cards[p[i]]], probe.top)
           = probe.out

\* ---- the machine under GameBoard
\* the positions of the current player's hand that hold a legal card
legalPositions(ctx) ==
  IF ctx.discardPile = <<>> \/ ctx.currentPlayerIndex >= Len(ctx.players) THEN {}
  ELSE LET hand == ctx.players[ctx.currentPlayerIndex + 1].hand
       IN { j \in 1..Len(hand) : legalOn(hand[j], ctx.discardPile[Len(ctx.discardPile)]) }

\* it is the turn of a player who holds exactly one legal card
oneLegalCard == state = "playerTurn" /\ Cardinality(legalPositions(context)) = 1

theLegalCard ==
  LET hand == context.players[context.currentPlayerIndex + 1].hand
  IN hand[CHOOSE j \in legalPositions(context) : TRUE]

C11_EndReason ==
  /\ state \in {"lobby", "gameStarting", "playerTurn", "waitingForTurn"}
       => gameEndReason(context) \in {"null", "undefined"}
  /\ state = "gameEnding"
       => gameEndReason(context) =
            CASE lastEvent.type = "TIMER_TICK" -> "timer_expired"
              [] lastEvent.type = "END_GAME" -> "manual_end"
              [] lastEvent.type = "after" -> "no_valid_moves"
              [] OTHER -> "none"
  /\ state = "gameOver"
       => gameEndReason(context) \in {"timer_expired", "manual_end", "no_valid_moves"}

\* ---- C12
\* C12: an accepted PLAY_CARDS or AUTO_PLAY that leaves the acting player's
\* hand empty takes the machine to gameEnding with reason "player_won".
C12_PlayerWon ==
  [][ ( /\ justAccepted
        /\ context'.players[context.currentPlayerIndex + 1].hand = <<>> )
      => /\ state' = "gameEnding"
         /\ gameEndReason(context') = "player_won"
    ]_vars

\* the point value of a card: its rank, Ace 1 up to King 13
RECURSIVE handPoints(_)
handPoints(hand) == IF hand = <<>> THEN 0 ELSE rankOf(Head(hand)) + handPoints(Tail(hand))

\* C13: In gameEnding finalScores holds exactly one entry per player, in
\* player order, whose finalScore is the sum of the point values of that
\* player's hand; winner is an entry with the minimum finalScore, the first
\* in player order among those sharing the minimum.
C13_FinalScores ==
  state = "gameEnding" =>
    LET players == context.players
        finalScores == context.finalScores
    IN /\ Len(finalScores) = Len(players)
       /\ \A i \in 1..Len(players) :
            /\ finalScores[i].playerId = players[i].id
            /\ finalScores[i].finalScore = handPoints(players[i].hand)
       /\ \E i \in 1..Len(finalScores) :
            /\ context.winner = <<finalScores[i]>>
            /\ \A j \in 1..Len(finalScores) :
                 finalScores[j].finalScore >= finalScores[i].finalScore
            /\ \A j \in 1..(i - 1) :
                 finalScores[j].finalScore > finalScores[i].finalScore

\* The round ended with two players sharing the lowest score, neither of them
\* the last player, and the first of the two is the winner.
C13_Witness ==
  /\ state = "gameEnding"
  /\ \E i, j \in 1..Len(context.finalScores) :
       /\ i < j
       /\ context.finalScores[i].finalScore = context.finalScores[j].finalScore
       /\ \A k \in 1..Len(context.finalScores) :
            context.finalScores[k].finalScore >= context.finalScores[i].finalScore
       /\ context.winner = <<context.finalScores[i]>>

\* C14: In gameEnding the machine accepts no command: a step taken there
\* either leaves state and context alone or is the delay's transition to
\* gameOver, which changes nothing in the context. On arrival in gameOver
\* finalScores has one entry per player of the round and winner is an entry
\* with the minimum final score, and both stay as they are while the machine
\* is in gameOver.
C14_GameEnding ==
  [][ /\ state = "gameEnding"
           => /\ context' = context
              /\ \/ state' = "gameEnding" /\ ~lastEvent'.handled
                 \/ state' = "gameOver" /\ lastEvent'.type = "after"
      /\ (state = "gameEnding" /\ state' = "gameOver")
           => /\ Len(context'.finalScores) = Len(context'.players)
              /\ context'.winner # <<>>
              /\ \A i \in 1..Len(context'.finalScores) :
                   context'.winner[1].finalScore <= context'.finalScores[i].finalScore
              /\ \E i \in 1..Len(context'.finalScores) :
                   context'.winner[1].finalScore = context'.finalScores[i].finalScore
      /\ (state = "gameOver" /\ state' = "gameOver")
           => /\ context'.finalScores = context.finalScores
              /\ context'.winner = context.winner
    ]_vars

\* The delay has just moved the machine to gameOver after a round of
\* RoundPlayers players that one of them won with a lower score.
C14_Witness ==
  /\ state = "gameOver"
  /\ lastEvent = [type |-> "after", handled |-> TRUE, from |-> "gameEnding"]
  /\ Len(context.finalScores) = RoundPlayers
  /\ \E i \in 1..Len(context.finalScores) :
       context.finalScores[i].finalScore > context.winner[1].finalScore

\* C15: START_GAME received in lobby moves the machine to gameStarting if
\* and only if at least 2 players are registered; with 0 or 1 players the
\* machine stays in lobby and the context is unchanged.
C15_StartGame ==
  [][ (state = "lobby" /\ lastEvent'.type = "START_GAME")
      => IF Len(context.players) >= 2
         THEN state' = "gameStarting"
         ELSE state' = "lobby" /\ context' = context
    ]_vars

\* START_GAME has just been refused with one player registered.
C15_Witness ==
  /\ state = "lobby"
  /\ lastEvent = [type |-> "START_GAME", handled |-> FALSE, from |-> "lobby"]
  /\ Len(context.players) = 1

\* every card held anywhere: the hands in player order, the discard pile, the deck
RECURSIVE handCards(_)
handCards(players) ==
  IF players = <<>> THEN <<>> ELSE Head(players).hand \o handCards(Tail(players))

cardsInPlay(ctx) == handCards(ctx.players) \o ctx.discardPile \o ctx.deck

C17_Restart ==
  [][ (state = "gameOver" /\ lastEvent'.type = "RESTART_GAME")
      => /\ state' = "lobby"
         /\ context'.players = <<>>
         /\ context'.gameTimer = 180
         /\ context'.selectedCards = <<>>
         /\ context'.deck = <<>>
         /\ context'.discardPile = <<>>
         /\ context'.finalScores = <<>>
         /\ context'.winner = <<>>
         /\ context'.autoPlayNotifications = <<>>
         /\ gameEndReason(context') = "null"
         /\ context'.gameId # context.gameId
    ]_vars

\* the ids a card command can carry that are not the current player's
otherSenderIds(ctx) == senderIds(ctx) \ {currentPlayerOf(ctx).id}

\* C18: In playerTurn every card command that carries a playerId different
\* from the current player's id (CARD_SELECTED, CARD_DESELECTED, PLAY_CARDS,
\* AUTO_PLAY) is rejected: state and context, selectedCards included, are
\* unchanged.
C18_NotCurrentPlayer ==
  [][ ( /\ state = "playerTurn"
        /\ lastEvent'.type \in {"CARD_SELECTED", "CARD_DESELECTED", "PLAY_CARDS", "AUTO_PLAY"}
        /\ \E playerId \in otherSenderIds(context) :
             \/ \E cardId \in selectableCards(context) :
                  \/ take(CARD_SELECTED(state, context, cardId, playerId), "CARD_SELECTED")
                  \/ take(CARD_DESELECTED(state, context, cardId, playerId), "CARD_DESELECTED")
             \/ \E card \in playableCards(context) :
                  take(AUTO_PLAY(state, context, card, playerId), "AUTO_PLAY")
             \/ \E cards \in seqsUpTo(playableCards(context), MaxPlay) :
                  take(PLAY_CARDS(state, context, cards, playerId), "PLAY_CARDS") )
      => /\ state' = state
         /\ context' = context
    ]_vars

\* the positions (1-based) of the players whose isCurrentPlayer is true
flagged(ctx) == { i \in 1..Len(ctx.players) : ctx.players[i].isCurrentPlayer }

\* C19 as stated: in playerTurn and waitingForTurn exactly one player has
\* isCurrentPlayer = true, the one at currentPlayerIndex; in lobby,
\* gameEnding and gameOver no player has it.
C19_AsStated ==
  /\ state \in {"playerTurn", "waitingForTurn"}
       => flagged(context) = {context.currentPlayerIndex + 1}
  /\ state \in {"lobby", "gameEnding", "gameOver"} => flagged(context) = {}

\* C19 (amended): in playerTurn, waitingForTurn and gameEnding exactly one
\* player has isCurrentPlayer = true, the one at currentPlayerIndex; in lobby
\* and gameStarting no player has it; in gameOver at most one player has it,
\* the flag set when the round ended staying until that player leaves.
C19_CurrentFlag ==
  /\ state \in {"playerTurn", "waitingForTurn", "gameEnding"}
       => flagged(context) = {context.currentPlayerIndex + 1}
  /\ state \in {"lobby", "gameStarting"} => flagged(context) = {}
  /\ state = "gameOver" => Cardinality(flagged(context)) <= 1

\* The round has ended with a player other than the first still flagged.
C19_Witness ==
  /\ state = "gameEnding"
  /\ context.currentPlayerIndex > 0
  /\ flagged(context) = {context.currentPlayerIndex + 1}

\* selectedCards names no card twice
selectedOnce(ctx) ==
  \A i, j \in 1..Len(ctx.selectedCards) :
    ctx.selectedCards[i] = ctx.selectedCards[j] => i = j

\* every selected card is in the hand of the player at currentPlayerIndex
selectedInCurrentHand(ctx) ==
  \/ ctx.selectedCards = <<>>
  \/ /\ ctx.players # <<>>
     /\ range(ctx.selectedCards) \subseteq range(currentPlayerOf(ctx).hand)

\* C20 as stated: in every state selectedCards contains no card twice and
\* is a subset of the hand of the player at currentPlayerIndex; it is empty
\* right after every change of the current player and right after every
\* accepted play, a SKIP_TURN sent while cards are selected included.
C20_AsStated ==
  [][ /\ selectedOnce(context')
      /\ selectedInCurrentHand(context')
      /\ ( \/ context'.currentPlayerIndex # context.currentPlayerIndex
           \/ justAccepted
           \/ (state = "playerTurn" /\ lastEvent'.type = "SKIP_TURN") )
         => context'.selectedCards = <<>>
    ]_vars

\* C20 (amended): selectedCards never contains a card twice; in playerTurn
\* it is a subset of the hand of the player at currentPlayerIndex; it is
\* empty right after every accepted PLAY_CARDS or AUTO_PLAY and on every
\* entry to playerTurn. SKIP_TURN leaves it as it is, so a selection made
\* before a SKIP_TURN lasts through waitingForTurn.
C20_Selection ==
  [][ /\ selectedOnce(context')
      /\ state' = "playerTurn" => selectedInCurrentHand(context')
      /\ justAccepted => context'.selectedCards = <<>>
      /\ (state # "playerTurn" /\ state' = "playerTurn") => context'.selectedCards = <<>>
      /\ (state = "playerTurn" /\ lastEvent'.type = "SKIP_TURN")
           => context'.selectedCards = context.selectedCards
    ]_vars

\* SKIP_TURN has just passed the turn to another player while a card of the
\* skipping player was selected.
C20_Witness ==
  /\ state = "waitingForTurn"
  /\ lastEvent = [type |-> "SKIP_TURN", handled |-> TRUE, from |-> "playerTurn"]
  /\ context.selectedCards # <<>>
  /\ ~selectedInCurrentHand(context)

\* ---- C21
\* s with every occurrence of x taken out
RECURSIVE minus(_, _)
minus(s, x) ==
  IF s = <<>> THEN <<>>
  ELSE IF Head(s) = x THEN minus(Tail(s), x) ELSE <<Head(s)>> \o minus(Tail(s), x)

\* selectedCards after the current player's CARD_SELECTED of cardId, as claimed
selectedAsClaimed(ctx, cardId) ==
  IF /\ \E i \in 1..Len(currentPlayerOf(ctx).hand) : currentPlayerOf(ctx).hand[i] = cardId
     /\ \A i \in 1..Len(ctx.selectedCards) : ctx.selectedCards[i] # cardId
  THEN ctx.selectedCards \o <<cardId>>
  ELSE ctx.selectedCards

\* C21: For the current player in playerTurn, CARD_SELECTED of a card of
\* their hand adds it to the end of selectedCards unless it is selected
\* already, CARD_SELECTED of an id not in their hand changes nothing,
\* CARD_DESELECTED removes exactly the named card and changes nothing when it
\* is not selected; none of them changes the state or any other field of the
\* context (hands and discard pile included).
C21_Selection ==
  [][ ( /\ state = "playerTurn"
        /\ lastEvent'.type \in {"CARD_SELECTED", "CARD_DESELECTED"} )
      => /\ state' = "playerTurn"
         /\ [context' EXCEPT !.selectedCards = <<>>] = [context EXCEPT !.selectedCards = <<>>]
         /\ \A cardId \in namedCards(context) :
              /\ take(CARD_SELECTED(state, context, cardId, currentPlayerOf(context).id),
                      "CARD_SELECTED")
                   => context'.selectedCards = selectedAsClaimed(context, cardId)
              /\ take(CARD_DESELECTED(state, context, cardId, currentPlayerOf(context).id),
                      "CARD_DESELECTED")
                   => context'.selectedCards = minus(context.selectedCards, cardId)
    ]_vars

\* The second player to move has MaxSelect cards selected after a
\* CARD_SELECTED.
C21_Witness ==
  /\ state = "playerTurn"
  /\ lastEvent = [type |-> "CARD_SELECTED", handled |-> TRUE, from |-> "playerTurn"]
  /\ Len(context.selectedCards) = MaxSelect
  /\ context.currentPlayerIndex > 0

\* ---- C22
\* C22: The notification log never holds more than 10 entries. Every
\* accepted AUTO_PLAY or SKIP_TURN records one notification of the acting
\* player at the end of the log, evicting the oldest entry when 10 are held
\* and keeping the others in order; RESTART_GAME empties the log and no other
\* step changes it. Hence the log is the most recent min(k, 10) of the k
\* notifications recorded since the last restart, in the order recorded.
C22_NotificationLog ==
  [][ LET log == context.autoPlayNotifications
          log2 == context'.autoPlayNotifications
      IN /\ Len(log2) <= 10
         /\ IF state = "playerTurn" /\ lastEvent'.handled
                /\ lastEvent'.type \in {"AUTO_PLAY", "SKIP_TURN"}
            THEN /\ Len(log2) = IF Len(log) < 10 THEN Len(log) + 1 ELSE 10
                 /\ \A i \in 1..(Len(log2) - 1) :
                      log2[i] = log[i + (Len(log) + 1 - Len(log2))]
                 /\ log2[Len(log2)].playerId = context.players[context.currentPlayerIndex + 1].id
                 /\ log2[Len(log2)].type =
                      IF lastEvent'.type = "AUTO_PLAY" THEN "auto-play" ELSE "auto-skip"
                 /\ lastEvent'.type = "AUTO_PLAY"
                      => log2[Len(log2)].card = context'.discardPile[Len(context'.discardPile)]
            ELSE IF lastEvent'.type = "RESTART_GAME" /\ lastEvent'.handled
            THEN log2 = <<>>
            ELSE log2 = log
    ]_vars

\* An AUTO_PLAY put a card on the pile, and ten later notifications have
\* pushed its notification out of the full log.
C22_Witness ==
  /\ Len(context.autoPlayNotifications) = 10
  /\ Len(context.discardPile) > 1
  /\ \A i \in 1..10 : context.autoPlayNotifications[i].type = "auto-skip"
  /\ \E i, j \in 1..10 :
       context.autoPlayNotifications[i].playerId # context.autoPlayNotifications[j].playerId

\* ---- C23
\* C23: From the end of dealing until restart each of the 52 card ids is in
\* exactly one place among the deck, the players' hands and the discard
\* pile, whatever commands the machine has accepted.
C23_CardsConserved ==
  state \in {"playerTurn", "waitingForTurn", "gameEnding", "gameOver"}
    => LET all == cardsInPlay(context)
       IN /\ Len(all) = 52
          /\ \A c \in 0..51 : Cardinality({ i \in 1..Len(all) : all[i] = c }) = 1

\* ---- C24
isPrefix(s, t) == Len(s) <= Len(t) /\ \A i \in 1..Len(s) : s[i] = t[i]

\* C24: Within a round, from dealing until restart, every transition leaves
\* the discard pile unchanged or extended at its end and leaves the deck
\* unchanged; the pile is never empty in playerTurn or waitingForTurn.
C24_PileAndDeck ==
  [][ /\ state' \in {"playerTurn", "waitingForTurn"} => context'.discardPile # <<>>
      /\ ( /\ state \in {"playerTurn", "waitingForTurn", "gameEnding", "gameOver"}
           /\ state' # "lobby" )
         => /\ isPrefix(context.discardPile, context'.discardPile)
            /\ context'.deck = context.deck
    ]_vars

\* A play of two cards has just extended a pile of at least three cards,
\* with the deck as the deal left it.
C24_Witness ==
  /\ state = "waitingForTurn"
  /\ lastEvent = [type |-> "PLAY_CARDS", handled |-> TRUE, from |-> "playerTurn"]
  /\ Len(context.discardPile) >= 5
  /\ Len(context.deck) = 52 - 7 * Len(context.players) - 1
  /\ Len(context.players[1].hand) + Len(context.players[2].hand)
       = 14 - (Len(context.discardPile) - 1)

\* ---- C25
\* lobby -> gameStarting -> playerTurn <-> waitingForTurn -> gameEnding
\*   -> gameOver -> lobby
claimedFlow ==
  { <<"lobby", "gameStarting">>, <<"gameStarting", "playerTurn">>,
    <<"playerTurn", "waitingForTurn">>, <<"waitingForTurn", "playerTurn">>,
    <<"waitingForTurn", "gameEnding">>, <<"gameEnding", "gameOver">>,
    <<"gameOver", "lobby">> }

\* C25 as stated: every change of state follows lobby -> gameStarting ->
\* playerTurn <-> waitingForTurn -> gameEnding -> gameOver -> lobby.
C25_AsStated ==
  [][ state' # state => <<state, state'>> \in claimedFlow ]_vars

\* C25 (amended): every change of state follows lobby -> gameStarting ->
\* playerTurn <-> waitingForTurn -> gameEnding -> gameOver -> lobby or goes
\* from playerTurn straight to gameEnding; a delayed transition is taken only
\* from the state that scheduled it, so the machine never goes from
\* gameEnding or gameOver back to playerTurn.
C25_StateFlow ==
  [][ /\ state' # state
           => <<state, state'>> \in claimedFlow \cup { <<"playerTurn", "gameEnding">> }
      /\ lastEvent'.type = "after"
           => /\ lastEvent'.from \in {"gameStarting", "waitingForTurn", "gameEnding"}
              /\ state' = CASE state = "gameStarting" -> "playerTurn"
                            [] state = "waitingForTurn" ->
                                 IF someoneHasLegalCard(context) THEN "playerTurn"
                                 ELSE "gameEnding"
                            [] OTHER -> "gameOver"
    ]_vars

\* The timer has ended the round while a player could still move, and a
\* command has been dropped in gameEnding since.
C25_Witness ==
  /\ state = "gameEnding"
  /\ context.gameTimer <= 0
  /\ someoneHasLegalCard(context)
  /\ lastEvent = [type |-> "PLAY_CARDS", handled |-> FALSE, from |-> "gameEnding"]

C28_DroppedOutsideTurn ==
  [][ ( /\ state # "playerTurn"
        /\ lastEvent'.type \in {"CARD_SELECTED", "CARD_DESELECTED", "PLAY_CARDS",
                                "AUTO_PLAY", "SKIP_TURN"} )
      => /\ state' = state
         /\ context' = context
    ]_vars

\* SKIP_TURN has just been dropped in waitingForTurn, after the skip that led
\* there: the log still holds that one notification.
C28_Witness ==
  /\ state = "waitingForTurn"
  /\ lastEvent = [type |-> "SKIP_TURN", handled |-> FALSE, from |-> "waitingForTurn"]
  /\ Len(context.autoPlayNotifications) = 1

\* ---- C29
\* C29: PLAYER_JOIN changes the roster only in lobby, where it appends one
\* player with the given id and name, an empty hand and isCurrentPlayer
\* false after the existing players and changes nothing else; in every other
\* state it changes nothing, and no step taken in gameStarting, playerTurn,
\* waitingForTurn or gameEnding changes the number of players.
C29_PlayerJoin ==
  [][ /\ lastEvent'.type = "PLAYER_JOIN"
           => IF state = "lobby"
              THEN /\ state' = "lobby"
                   /\ context'.players =
                        context.players \o
                          << [id |-> lateId(context), name |-> lateName(context),
                              hand |-> <<>>, isCurrentPlayer |-> FALSE] >>
                   /\ [context' EXCEPT !.players = <<>>] = [context EXCEPT !.players = <<>>]
              ELSE state' = state /\ context' = context
      /\ state \in {"gameStarting", "playerTurn", "waitingForTurn", "gameEnding"}
           => Len(context'.players) = Len(context.players)
    ]_vars

\* PLAYER_JOIN has just been dropped in playerTurn of a round of RoundPlayers.
C29_Witness ==
  /\ state = "playerTurn"
  /\ lastEvent = [type |-> "PLAYER_JOIN", handled |-> FALSE, from |-> "playerTurn"]
  /\ Len(context.players) = RoundPlayers
  /\ context.players[RoundPlayers].name = RoundPlayers + LobbyCap

\* ---- C30
\* C30: The roster never holds more than 4 players: a PLAYER_JOIN received
\* when 4 players are registered does not add a fifth, so no round is
\* started with more than 4 players.
C30_RosterCap ==
  Len(context.players) <= 4

\* ---- C31
\* C31: LEAVE_GAME(playerId) received in gameOver removes from the roster
\* exactly the players with that id and keeps the others in order; the
\* machine stays in gameOver and every other field of the context
\* (finalScores, winner, discard pile, deck, gameId among them) is
\* unchanged; an id that is not in the roster changes nothing.
C31_LeaveGame ==
  [][ (state = "gameOver" /\ lastEvent'.type = "LEAVE_GAME")
      => /\ state' = "gameOver"
         /\ [context' EXCEPT !.players = <<>>] = [context EXCEPT !.players = <<>>]
         /\ \A playerId \in {0} \cup { context.players[i].id : i \in 1..Len(context.players) } :
              take(LEAVE_GAME(state, context, playerId), "LEAVE_GAME")
                => /\ context'.players =
                        SelectSeq(context.players, LAMBDA player : player.id # playerId)
                   /\ (\A i \in 1..Len(context.players) : context.players[i].id # playerId)
                        => context' = context
    ]_vars

\* The first player of a round of RoundPlayers has just left in gameOver:
\* the others are still there and the scores still list everyone.
C31_Witness ==
  /\ state = "gameOver"
  /\ lastEvent = [type |-> "LEAVE_GAME", handled |-> TRUE, from |-> "gameOver"]
  /\ Len(context.finalScores) = RoundPlayers
  /\ Len(context.players) = RoundPlayers - 1
  /\ context.players[1].id = context.finalScores[2].playerId


\* ---------------------------------------------------------------------
\* dealCards called on its own: decks are prefixes of shuffled decks, so
\* that complete and exhausted deals both occur.
dealDecks ==
  { SubSeq(createDeck(seed), 1, n) : seed \in Seeds, n \in 0..DeckSize }

CallDealCards ==
  /\ probe.fn = noProbe.fn
  /\ \E deck \in dealDecks, numPlayers \in 0..LobbyCap,
        cardsPerPlayer \in {0, 1, CardsPerPlayer} :
       probe' = [fn |-> "dealCards", cards |-> deck,
                 top |-> <<numPlayers, cardsPerPlayer>>,
                 out |-> dealCards(deck, numPlayers, cardsPerPlayer)]
  /\ UNCHANGED <<state, context, lastEvent, timeouts>>

SpecDealCards == Init /\ [][CallDealCards]_vars

RECURSIVE flatten(_)
flatten(hands) ==
  IF hands = <<>> THEN <<>> ELSE Head(hands) \o flatten(Tail(hands))

\* C32: dealCards(deck, N, c) deals round-robin from the front of the deck:
\* hand p (counted from 0) holds deck[p], deck[p+N], deck[p+2N], ... in that
\* order; the hands and the remainder together hold every card of the deck
\* exactly once; when the deck has at least N*c cards every hand has c cards
\* and the remainder is the rest of the deck (for 52 cards, c = 7 and N <= 4:
\* N hands of 7 and 52 - 7N left); when N*c exceeds the deck length every
\* card is dealt, no hand has more than c cards and the remainder is empty.
C32_DealCards ==
  probe.fn = "dealCards" =>
    LET deck == probe.cards
        N == probe.top[1]
        c == probe.top[2]
        hands == probe.out.playerHands
        rest == probe.out.remainingDeck
        all == flatten(hands) \o rest
    IN /\ Len(hands) = N
       /\ \A p \in 1..N : \A k \in 1..Len(hands[p]) :
            /\ (p - 1) + (k - 1) * N + 1 <= Len(deck)
            /\ hands[p][k] = deck[(p - 1) + (k - 1) * N + 1]
       /\ Len(all) = Len(deck)
       /\ \A i \in 1..Len(deck) :
            Cardinality({ j \in 1..Len(all) : all[j] = deck[i] }) = 1
       /\ N * c <= Len(deck)
            => /\ \A p \in 1..N : Len(hands[p]) = c
               /\ rest = SubSeq(deck, N * c + 1, Len(deck))
       /\ (Len(deck) = DeckSize /\ c = CardsPerPlayer)
            => /\ \A p \in 1..N : Len(hands[p]) = CardsPerPlayer
               /\ Len(rest) = DeckSize - CardsPerPlayer * N
       /\ N * c > Len(deck)
            => /\ \A p \in 1..N : Len(hands[p]) <= c
               /\ rest = <<>>

\* A deal of seven cards each to four players from a deck of 26 cards: the
\* deck runs out in the seventh round, after two players received a card.
C32_Witness ==
  /\ probe.fn = "dealCards"
  /\ Len(probe.cards) = 26
  /\ probe.top = <<LobbyCap, CardsPerPlayer>>
  /\ Len(probe.out.playerHands[2]) = CardsPerPlayer
  /\ Len(probe.out.playerHands[3]) = CardsPerPlayer - 1
  /\ probe.out.remainingDeck = <<>>


\* ---------------------------------------------------------------------
\* calculateHandScore called on its own, on hands of up to MaxCards cards
\* drawn from one whole suit and the lowest cards of a second one, repeated
\* cards and every order included.
scoreCards == { card \in Cards : card < NumValues + MaxCards }

scoreHands == UNION { [1..n -> scoreCards] : n \in 0..MaxCards }

CallCalculateHandScore ==
  /\ probe.fn = noProbe.fn
  /\ \E hand \in scoreHands :
       probe' = [fn |-> "calculateHandScore", cards |-> hand, top |-> 0,
                 out |-> calculateHandScore(hand)]
  /\ UNCHANGED <<state, context, lastEvent, timeouts>>

SpecHandScore == Init /\ [][CallCalculateHandScore]_vars

\* the bijections of 1..n onto itself
orderings(n) == { f \in [1..n -> 1..n] : \A i \in 1..n : \E j \in 1..n : f[j] = i }

\* C33: calculateHandScore(hand) is the sum of the point values of the
\* hand's cards (Ace 1, 2..10 their number, Jack 11, Queen 12, King 13), is 0
\* for the empty hand, and is the same for every ordering of the hand.
C33_HandScore ==
  probe.fn = "calculateHandScore" =>
    LET hand == probe.cards
    IN /\ probe.out = handPoints(hand)
       /\ hand = <<>> => probe.out = 0
       /\ \A f \in orderings(Len(hand)) :
            calculateHandScore([i \in 1..Len(hand) |-> hand[f[i]]]) = probe.out

\* A hand of a King, an Ace and a Jack of mixed suits scores 13 + 1 + 11.
C33_Witness ==
  /\ probe.fn = "calculateHandScore"
  /\ Len(probe.cards) = 3
  /\ value(probe.cards[1]) = "K" /\ value(probe.cards[2]) = "A" /\ value(probe.cards[3]) = "J"
  /\ suit(probe.cards[1]) # suit(probe.cards[2])
  /\ probe.out = 25


\* C34: A TIMER_TICK with remainingTime > 0 received in playerTurn or
\* waitingForTurn is handled and changes only gameTimer, set to the received
\* value: the state and every other field of the context (hands, discard
\* pile, selectedCards, currentPlayerIndex, deck, notifications) stay; in
\* waitingForTurn the turn is not advanced again and the delayed transition
\* stays pending with the target it had.
C34_RunningTick ==
  [][ (state \in {"playerTurn", "waitingForTurn"} /\ lastEvent'.type = "TIMER_TICK")
      => \A remainingTime \in tickTimes :
           (remainingTime > 0 /\ take(TIMER_TICK(state, context, remainingTime), "TIMER_TICK"))
             => /\ lastEvent'.handled
                /\ state' = state
                /\ context' = [context EXCEPT !.gameTimer = remainingTime]
                /\ state = "waitingForTurn"
                     => afterWaitingTarget(context') = afterWaitingTarget(context)
    ]_vars

\* A running tick was received in waitingForTurn after an accepted play, the
\* machine is still there and the turn still belongs to the next player.
C34_Witness ==
  /\ state = "waitingForTurn"
  /\ lastEvent = [type |-> "TIMER_TICK", handled |-> TRUE, from |-> "waitingForTurn"]
  /\ context.gameTimer = InitialTimer - 1
  /\ Len(context.discardPile) = 2
  /\ context.currentPlayerIndex = 1


\* C35 as stated: an END_GAME received in waitingForTurn makes the machine
\* leave waitingForTurn for gameEnding.
C35_AsStated ==
  [][ (state = "waitingForTurn" /\ lastEvent'.type = "END_GAME")
      => state' = "gameEnding" ]_vars

\* C35 (amended): END_GAME is handled in playerTurn only. Received in
\* waitingForTurn it is dropped: the state and the context are unchanged and
\* the delayed transition stays pending. waitingForTurn is left before its
\* delay elapses only by a TIMER_TICK with remainingTime <= 0, for
\* gameEnding, and gameEnding is left only for gameOver, so that the delayed
\* transition to playerTurn does not fire afterwards.
C35_EndWhileWaiting ==
  [][ /\ (state = "waitingForTurn" /\ lastEvent'.type = "END_GAME")
           => /\ ~lastEvent'.handled
              /\ state' = "waitingForTurn"
              /\ context' = context
      /\ (state = "playerTurn" /\ lastEvent'.type = "END_GAME")
           => state' = "gameEnding"
      /\ (state = "waitingForTurn" /\ state' # state /\ lastEvent'.type # "after")
           => /\ lastEvent'.type = "TIMER_TICK"
              /\ context'.gameTimer <= 0
              /\ state' = "gameEnding"
      /\ (state = "gameEnding" /\ state' # state)
           => state' = "gameOver"
    ]_vars

\* An END_GAME has just been dropped in waitingForTurn after an accepted
\* play; the turn is about to pass to the second player.
C35_Witness ==
  /\ state = "waitingForTurn"
  /\ lastEvent = [type |-> "END_GAME", handled |-> FALSE, from |-> "waitingForTurn"]
  /\ Len(context.discardPile) = 2
  /\ context.currentPlayerIndex = 1


\* C36: A SKIP_TURN received in playerTurn while the current player holds a
\* card that canPlayCard accepts on the discard top does not advance the
\* turn: the state and the context are unchanged.
C36_SkipRefused ==
  [][ ( /\ state = "playerTurn"
        /\ lastEvent'.type = "SKIP_TURN"
        /\ hasLegalCard(context, context.currentPlayerIndex + 1) )
      => /\ state' = state
         /\ context' = context
    ]_vars


\* ---- C37
\* the lists of one or two different cards of player i's hand that
\* canPlayCards accepts on the discard top
acceptedSets(ctx, i) ==
  { cards \in seqsUpTo(range(ctx.players[i].hand), 2) :
      /\ cards # <<>>
      /\ \A j, k \in 1..Len(cards) : cards[j] = cards[k] => j = k
      /\ canPlayCards(cards, ctx.discardPile[Len(ctx.discardPile)]) }

\* C37: Whenever the deadlock check of waitingForTurn's delayed transition
\* sends the machine to gameEnding, no player holds a set of one or more
\* cards that canPlayCards accepts on the discard top, plays of several cards
\* that add up to the top's value included.
C37_DeadlockMeansNoMove ==
  [][ (state = "waitingForTurn" /\ lastEvent'.type = "after" /\ state' = "gameEnding")
      => \A i \in 1..Len(context.players) : acceptedSets(context, i) = {}
    ]_vars


\* ---- C38
\* C38: Every time playerTurn is entered from waitingForTurn, currentPlayerIndex
\* is within 0..n-1 and the player at that index holds at least one card that
\* canPlayCard accepts on the discard top; while the machine stays in
\* playerTurn that does not change, so a turn of a player with zero legal
\* cards is the first turn of a round only: the first player's, with the
\* dealt card alone on the discard pile and nothing played or skipped yet.
C38_TurnHasLegalCard ==
  /\ [][ (state = "waitingForTurn" /\ state' = "playerTurn")
         => /\ context'.currentPlayerIndex \in 0..(Len(context'.players) - 1)
            /\ hasLegalCard(context', context'.currentPlayerIndex + 1)
            /\ Len(getValidCards(currentPlayerOf(context').hand,
                                 context'.discardPile[Len(context'.discardPile)])) > 0
       ]_vars
  /\ [][ (state = "playerTurn" /\ state' = "playerTurn")
         => (hasLegalCard(context', context'.currentPlayerIndex + 1)
               <=> hasLegalCard(context, context.currentPlayerIndex + 1)) ]_vars
  /\ [](( /\ state = "playerTurn"
          /\ ~hasLegalCard(context, context.currentPlayerIndex + 1) )
        => /\ context.currentPlayerIndex = 0
           /\ Len(context.discardPile) = 1
           /\ context.autoPlayNotifications = <<>>
           /\ \A i \in 1..Len(context.players) : Len(context.players[i].hand) = CardsPerPlayer)

\* playerTurn has been entered from waitingForTurn for the player who played
\* last: the other player, who comes next in order, holds no legal card and
\* was passed over.
C38_Witness ==
  /\ state = "playerTurn"
  /\ lastEvent = [type |-> "after", handled |-> TRUE, from |-> "waitingForTurn"]
  /\ Len(context.players) = 2
  /\ context.discardPile # <<>>
  /\ hasLegalCard(context, context.currentPlayerIndex + 1)
  /\ ~hasLegalCard(context, 2 - context.currentPlayerIndex)
  /\ Len(context.players[context.currentPlayerIndex + 1].hand) < CardsPerPlayer


\* ---- C39
\* ------------------------------------------- rounds without timer or END_GAME
\* The runtime resolves turns of zero or one legal card (SKIP_TURN, AUTO_PLAY),
\* the players submit accepted plays of cards of their own hand, and the
\* delays elapse; no TIMER_TICK and no END_GAME is sent.
AutoNext ==
  \/ RoundJoin \/ RoundStart \/ AfterGameStarting
  \/ RoundPlay \/ RoundAutoPlay \/ RoundSkip
  \/ AfterWaitingForTurn \/ AfterGameEnding

\* Every turn is resolved and every delay elapses: weak fairness of the
\* moves of a turn and of waitingForTurn's delayed transition, one of which
\* is enabled exactly in playerTurn and waitingForTurn.
turnsResolve ==
  \/ []<>(state \notin {"playerTurn", "waitingForTurn"})
  \/ []<><<RoundPlay \/ RoundAutoPlay \/ RoundSkip \/ AfterWaitingForTurn>>_vars

SpecAuto == Init /\ [][AutoNext]_vars /\ turnsResolve

cardsInHands(ctx) == Len(handCards(ctx.players))

\* C39: With no TIMER_TICK and no END_GAME ever sent, a round in which the
\* runtime auto-plays a single legal card and skips a player without one, and
\* players with a choice submit accepted plays of cards of their own hand,
\* ends: every turn ends with fewer cards in the hands, except a first turn
\* that is skipped; the way back to playerTurn leaves the hands alone; the
\* cards played are on the discard pile, so that at most 7N plays are
\* accepted; and the machine reaches gameEnding.
C39_RoundEnds ==
  /\ [][ (state = "playerTurn" /\ state' = "waitingForTurn")
         => \/ /\ lastEvent'.type \in {"PLAY_CARDS", "AUTO_PLAY"}
               /\ cardsInHands(context') < cardsInHands(context)
               /\ Len(context'.discardPile) - Len(context.discardPile)
                    = cardsInHands(context) - cardsInHands(context')
            \/ /\ lastEvent'.type = "SKIP_TURN"
               /\ Len(context.discardPile) = 1
               /\ context.autoPlayNotifications = <<>>
               /\ cardsInHands(context') = cardsInHands(context)
       ]_vars
  /\ [][ (state = "waitingForTurn" /\ state' = "playerTurn")
         => cardsInHands(context') = cardsInHands(context) ]_vars
  /\ [](state \in {"playerTurn", "waitingForTurn", "gameEnding"}
        => /\ Len(context.discardPile) >= 1
           /\ cardsInHands(context) + Len(context.discardPile) - 1
                = CardsPerPlayer * Len(context.players))
  /\ (state = "playerTurn") ~> (state = "gameEnding")

\* A round of two players has ended by deadlock after cards were played:
\* nobody holds a legal card, and the timer still shows its initial value.
C39_Witness ==
  /\ state = "gameEnding"
  /\ lastEvent = [type |-> "after", handled |-> TRUE, from |-> "waitingForTurn"]
  /\ context.gameTimer = InitialTimer
  /\ Len(context.discardPile) > 2
  /\ ~someoneHasLegalCard(context)


\* ---- C40
\* C40: Every accepted AUTO_PLAY plays a card that is in the current
\* player's hand when it is received, and appends to the discard pile a card
\* that is not on the pile already; an AUTO_PLAY delivered late or a second
\* time is dropped.
C40_AutoPlayOnce ==
  [][ (lastEvent'.type = "AUTO_PLAY" /\ lastEvent'.handled)
      => LET card == context'.discardPile[Len(context'.discardPile)]
         IN /\ state = "playerTurn"
            /\ card \in range(currentPlayerOf(context).hand)
            /\ card \notin range(context.discardPile)
            /\ Len(context'.discardPile) = Len(context.discardPile) + 1
    ]_vars

====
